---- MODULE Spec2Model ----
(***************************************************************************)
(* A model of seven subsystems of the context-assembly service:            *)
(*   - the token-budget-enforced context assembler                         *)
(*       (src/src/context/adaptive_manager.rs, token_budget.rs),           *)
(*   - the LLM summarizer              (src/src/context/summarizer.rs),    *)
(*   - the OCR decode cache            (src/src/api/vision/cache.rs),      *)
(*   - the per-operation circuit breaker                                   *)
(*       (src/src/api/vision/circuit_breaker.rs),                          *)
(*   - the OCR client                  (src/src/api/vision/                *)
(*       deepseek_client.rs),                                              *)
(*   - the fact store                  (src/src/facts/store.rs, models.rs),*)
(*   - the task orchestrator, its local policy tool and its API            *)
(*       (src/src/autodev/orchestrator.rs, tools/policy.rs, api.rs).       *)
(* Each subsystem has its own specifications: SpecCtx and SpecArtifacts    *)
(* (prioritize_artifacts and shrink_artifacts on long lists); SpecLlm (one *)
(* summarize call of the LLM summarizer); SpecBreaker;                     *)
(* SpecCache and SpecSplit; SpecClient (concurrent decode calls),          *)
(* SpecCalls (one caller, every operation and outcome) and SpecRetry (long *)
(* retry loops); SpecFacts (concurrent insert_fact calls), SpecFactsSeq   *)
(* (one caller, with the clock) and SpecQuery (one caller that inserts and *)
(* queries); SpecAutodev (one run_task call), SpecPolicy (one invocation   *)
(* of policy_local), SpecApi (the task routes and the spawned jobs),       *)
(* SpecCancel (one job and the cancel requests on its task) and            *)
(* SpecCancelFair (SpecCancel with the job's steps weakly fair).  A        *)
(* specification leaves the variables of the subsystems it does not        *)
(* exercise at their initial value.                                        *)
(***************************************************************************)
EXTENDS Integers, Sequences, FiniteSets, TLC

VARIABLES
    \* ---- context assembler ----
    budget,        \* TokenBudgetConfig of the TokenBudgetManager
    ctxIn,         \* the arguments of build_context
    ctxPc,         \* "idle" | "summarizing" (awaiting the Summarizer) | "done"
    ctxSelected,   \* selected_artifacts, kept across the await in summarize_turns
    ctxCall,       \* the Summarizer invocations made: a sequence of [texts, target]
    ctxOut,        \* Result<AdaptiveContext>
    llm,           \* an LLMSummarizer::summarize call: max_retries, its
                   \* position in the retry loop, the requests sent, the
                   \* sleeps made, last_error and the result
    \* ---- clock ----
    now,           \* Instant::now(), in ticks
    \* ---- circuit breaker ----
    breakerCfg,    \* CircuitBreakerConfig
    breakers,      \* CircuitBreaker.breakers: HashMap<String, BreakerEntry>
    brLast,        \* the last call made on the breaker and what it returned
    \* ---- decode cache ----
    cacheCfg,      \* DecodeCache.ttl and DecodeCache.max_size
    cache,         \* DecodeCache.entries: HashMap<CacheKey, CacheEntry>
    caLast,        \* the last call made on the cache and what it returned
    split,         \* a split_hits call in progress: its loop position and lists
    \* ---- OCR client ----
    clientCfg,     \* DeepseekConfig: enabled, retry_attempts, retry_backoff,
                   \* max_concurrent_decodes
    reqs,          \* the calls in progress on the client, one per caller
    permits,       \* DeepseekOcrClient.semaphore: the permits available
    decodeRun,     \* the decode failures since the last decode success
    \* ---- fact store ----
    factCfg,       \* FactStoreConfig: dedup_enabled, confidence_threshold,
                   \* max_facts_per_query
    points,        \* the points of the facts collection in the vector database
    inserts,       \* the insert_fact calls in progress, one per caller
    acked,         \* the upserts the database has acknowledged and not yet
                   \* applied to the collection
    fqLast,        \* the last query_facts call and what it returned
    uuids,         \* the number of Uuid::new_v4() values drawn so far
    \* ---- task orchestrator ----
    autodevCfg,    \* AutodevConfig
    task,          \* the Task that run_task owns: its status, error, risk tier
    run,           \* the run_task call: its position, the steps invoked so
                   \* far and step_outputs
    tasks,         \* AutodevState.tasks: HashMap<Uuid, Task>
    spawned,       \* the task ids whose spawned run_task has not returned
    apiLast,       \* the last request made on the task API and its response
    policyCall     \* a LocalPolicyTool invocation: its input and what it returned

ctxVars == <<budget, ctxIn, ctxPc, ctxSelected, ctxCall, ctxOut, llm>>
brVars == <<breakerCfg, breakers, brLast>>
caVars == <<cacheCfg, cache, caLast, split>>

clVars == <<clientCfg, reqs, permits, decodeRun>>

faVars == <<factCfg, points, acked, inserts, fqLast, uuids>>

apiVars == <<tasks, spawned, apiLast>>

adVars == <<autodevCfg, task, run, apiVars, policyCall>>

vars == <<ctxVars, now, brVars, caVars, clVars, faVars, adVars>>

\* build_context has not returned yet.
NotReturned == [ok |-> FALSE, err |-> "NotReturned"]

\* No call has been made on the breaker yet.
NoCall == [op |-> "none"]

\* The variables of a subsystem that a specification does not exercise.
CtxParked ==
    /\ budget = <<>>
    /\ ctxIn = <<>>
    /\ ctxPc = "idle"
    /\ ctxSelected = <<>>
    /\ ctxCall = <<>>
    /\ ctxOut = NotReturned
    /\ llm = <<>>

BreakerParked ==
    /\ breakerCfg = <<>>
    /\ breakers = <<>>
    /\ brLast = NoCall

\* No split_hits call is running.
NoSplit == [pc |-> "idle"]

CacheParked ==
    /\ cacheCfg = <<>>
    /\ cache = <<>>
    /\ caLast = NoCall
    /\ split = NoSplit

\* No decode attempt has failed since the last success.
NoRun == [fails |-> 0, at |-> 0]

ClientParked ==
    /\ clientCfg = <<>>
    /\ reqs = <<>>
    /\ permits = 0
    /\ decodeRun = NoRun

FactsParked ==
    /\ factCfg = <<>>
    /\ points = {}
    /\ acked = {}
    /\ inserts = <<>>
    /\ fqLast = NoCall
    /\ uuids = 0

ApiParked ==
    /\ tasks = <<>>
    /\ spawned = {}
    /\ apiLast = <<>>

PolicyParked == policyCall = <<>>

AutodevParked ==
    /\ autodevCfg = <<>>
    /\ task = <<>>
    /\ run = <<>>
    /\ ApiParked
    /\ PolicyParked

Min(a, b) == IF a < b THEN a ELSE b
Max(a, b) == IF a > b THEN a ELSE b

RECURSIVE SumSeq(_)
SumSeq(s) == IF s = <<>> THEN 0 ELSE Head(s) + SumSeq(Tail(s))

\* Vec::truncate(n): keeps the first n elements, no-op when n >= len.
Truncate(s, n) == SubSeq(s, 1, Min(n, Len(s)))

SeqsUpTo(S, n) == UNION {[1..k -> S] : k \in 0..n}

(***************************************************************************)
(*                               CLOCK                                     *)
(***************************************************************************)

\* The clock is read by Instant::now() and Instant::elapsed(); it only moves
\* forward.  MaxTime bounds the behaviours explored.
MaxTime == 3

ClockIdle == now = 0

Tick ==
    /\ now < MaxTime
    /\ now' = now + 1

\* Option<Instant>: None is <<>>, Some(t) is <<t>>.
NoInstant == <<>>
Some(t) == <<t>>

(***************************************************************************)
(*                          CIRCUIT BREAKER                                *)
(***************************************************************************)

\* Bounds: the thresholds and timeouts a breaker is configured with, and a
\* cap on failure_count, which the code lets grow without limit.
MaxThreshold == 2
MaxResetTimeout == 2
MaxFailures == 3

\* The operation labels the client uses.
Labels == {"decode", "index", "status"}

\* BreakerEntry::new.  last_failure is left out: it is written by
\* mark_failure and mark_success and read only by stats().
BreakerEntryNew == [state |-> "Closed", failure_count |-> 0, opened_at |-> NoInstant]

\* breakers.entry(operation).or_insert_with(BreakerEntry::new)
EntryOrInsert(b, op) == IF op \in DOMAIN b THEN b[op] ELSE BreakerEntryNew

\* HashMap::insert
Put(b, op, e) == [k \in DOMAIN b \cup {op} |-> IF k = op THEN e ELSE b[k]]

\* HashMap::remove
Remove(b, op) == [k \in DOMAIN b \ {op} |-> b[k]]

\* The match of is_open with the reset test off by one: the circuit stays
\* open at exactly opened_at + reset_timeout.
is_open_late(cfg, e, t) ==
    IF e.state = "Open"
    THEN IF e.opened_at # NoInstant
         THEN IF t - e.opened_at[1] > cfg.reset_timeout
              THEN [ret |-> FALSE, entry |-> [e EXCEPT !.state = "HalfOpen"]]
              ELSE [ret |-> TRUE, entry |-> e]
         ELSE [ret |-> TRUE, entry |-> e]
    ELSE [ret |-> FALSE, entry |-> e]

\* CircuitBreaker::is_open on the entry e at time t: what it returns and
\* what it leaves in the map.
is_open(cfg, e, t) ==
    IF e.state = "Open"
    THEN IF e.opened_at # NoInstant
         THEN IF t - e.opened_at[1] >= cfg.reset_timeout
              THEN [ret |-> FALSE, entry |-> [e EXCEPT !.state = "HalfOpen"]]
              ELSE [ret |-> TRUE, entry |-> e]
         ELSE [ret |-> TRUE, entry |-> e]
    ELSE [ret |-> FALSE, entry |-> e]

\* mark_success that closes the circuit and keeps the failures counted.
mark_success_keeps_count(e) == [e EXCEPT !.state = "Closed", !.opened_at = NoInstant]

\* CircuitBreaker::mark_success
mark_success(e) == [state |-> "Closed", failure_count |-> 0, opened_at |-> NoInstant]

\* mark_failure that opens the circuit from Closed only: a failure on a
\* HalfOpen or Open entry is counted and nothing else.
mark_failure_from_closed(cfg, e, t) ==
    LET n == e.failure_count + 1
    IN  IF n >= cfg.failure_threshold /\ e.state = "Closed"
        THEN [state |-> "Open", failure_count |-> n, opened_at |-> Some(t)]
        ELSE [e EXCEPT !.failure_count = n]

\* CircuitBreaker::mark_failure
mark_failure(cfg, e, t) ==
    LET n == e.failure_count + 1
    IN  IF n >= cfg.failure_threshold
        THEN [state |-> "Open", failure_count |-> n, opened_at |-> Some(t)]
        ELSE [e EXCEPT !.failure_count = n]

BreakerConfigs == [failure_threshold : 1..MaxThreshold,
                   reset_timeout : 0..MaxResetTimeout]

(***************************************************************************)
(*                            DECODE CACHE                                 *)
(***************************************************************************)

\* Bounds: the TTLs and capacities a cache is built with, and the length of
\* the id list of a split_hits call.
MaxTtl == 2
MaxCacheSize == 2
MaxIds == 2

Regions == {"r1", "r2"}
Fidelities == {"10x", "5x"}     \* FidelityLevel::as_str
Texts == {"X", "Y"}

\* CacheKey { region_id, fidelity }
Key(region_id, fidelity) == <<region_id, fidelity>>

\* DecodeResult; confidence is carried along unread and is left out.
DecodeResult(region_id, text) == [region_id |-> region_id, text |-> text]

\* DecodeCache::get with the expiry test off by one: an entry exactly ttl
\* old is still served.
get_stale(cfg, c, key, t) ==
    IF key \in DOMAIN c
    THEN IF t - c[key].inserted_at <= cfg.ttl
         THEN [ret |-> <<c[key].result>>, cache |-> c]
         ELSE [ret |-> <<>>, cache |-> Remove(c, key)]
    ELSE [ret |-> <<>>, cache |-> c]

\* DecodeCache::get at time t: the Option it returns (<<>> is None) and the
\* map it leaves.
get(cfg, c, key, t) ==
    IF key \in DOMAIN c
    THEN IF t - c[key].inserted_at < cfg.ttl
         THEN [ret |-> <<c[key].result>>, cache |-> c]
         ELSE [ret |-> <<>>, cache |-> Remove(c, key)]
    ELSE [ret |-> <<>>, cache |-> c]

\* The keys min_by_key(inserted_at) can yield: HashMap iteration order is
\* arbitrary, so any entry of minimal inserted_at.
Oldest(c) == {k \in DOMAIN c : \A j \in DOMAIN c : c[k].inserted_at <= c[j].inserted_at}

\* DecodeCache::evict_oldest: the maps it can leave.
evict_oldest(c) ==
    IF DOMAIN c = {} THEN {c} ELSE {Remove(c, k) : k \in Oldest(c)}

\* DecodeCache::store at time t: the maps it can leave.
store(cfg, c, key, result, t) ==
    LET entry == [result |-> result, inserted_at |-> t]
        room == IF Cardinality(DOMAIN c) >= cfg.max_size /\ key \notin DOMAIN c
                THEN evict_oldest(c) ELSE {c}
    IN  {Put(d, key, entry) : d \in room}

\* DecodeCache::store_batch: store for each result in turn, keyed by the
\* result's own region_id.
RECURSIVE store_batch(_, _, _, _, _)
store_batch(cfg, c, results, fidelity, t) ==
    IF results = <<>> THEN {c}
    ELSE UNION {store_batch(cfg, d, Tail(results), fidelity, t) :
                  d \in store(cfg, c, Key(Head(results).region_id, fidelity),
                              Head(results), t)}

\* DecodeCache::clear_expired
clear_expired(cfg, c, t) ==
    [k \in {j \in DOMAIN c : t - c[j].inserted_at < cfg.ttl} |-> c[k]]


CacheConfigs == [ttl : 0..MaxTtl, max_size : 0..MaxCacheSize]

(***************************************************************************)
(*                         CONTEXT ASSEMBLER                               *)
(***************************************************************************)

\* Bounds of the assembler's inputs.  A text is modelled by its number of
\* whitespace-separated words, the only thing estimate_tokens reads.
MaxWords == 3
MaxTurns == 2
MaxArtifacts == 5

\* TokenBudgetManager::estimate_tokens: ((words as f32) * 1.3) as usize.
\* For words < 90 the f32 product truncates to floor(13 * words / 10).
estimate_tokens(words) == (words * 13) \div 10

\* TokenBudgetConfig::validate
validate(cfg) ==
    cfg.system_tokens + cfg.running_brief + cfg.recent_turns
        + cfg.retrieved_context + cfg.completion <= cfg.max_total

\* The configurations the manager is built with (TokenBudgetManager::new
\* rejects the ones validate refuses).  Scaled down from the defaults so that
\* a handful of words overflows max_total.
BudgetConfigs ==
    {cfg \in [system_tokens : {1}, running_brief : {2}, recent_turns : {1},
              retrieved_context : {4}, completion : {2},
              max_total : {10, 12}] : validate(cfg)}

\* TokenBudgetManager::recommended_snippet_count
recommended_snippet_count(cfg) ==
    Max(Min(cfg.retrieved_context \div 325, 12), 8)

\* TokenBudgetManager::allocate
allocate(cfg, system_used, brief_used, turns_used, context_used, completion_used) ==
    LET total == system_used + brief_used + turns_used + context_used
                    + completion_used
    IN  IF total > cfg.max_total
        THEN [ok |-> FALSE, err |-> "BudgetExceeded"]
        ELSE [ok |-> TRUE,
              system_tokens |-> system_used,
              running_brief |-> brief_used,
              recent_turns |-> turns_used,
              retrieved_context |-> context_used,
              completion |-> completion_used,
              total_allocated |-> total,
              remaining |-> cfg.max_total - total]

\* The comparator of prioritize_artifacts: b.priority.cmp(a.priority), then
\* b.relevance.total.partial_cmp(a.relevance.total).  TRUE when a must come
\* strictly before b.
Before(a, b) ==
    \/ a.priority > b.priority
    \/ a.priority = b.priority /\ a.relevance > b.relevance

\* An unstable sort: x is inserted before the elements it ties with.
RECURSIVE InsertSortedUnstable(_, _)
InsertSortedUnstable(x, s) ==
    IF s = <<>> THEN <<x>>
    ELSE IF ~Before(Head(s), x) THEN <<x>> \o s
         ELSE <<Head(s)>> \o InsertSortedUnstable(x, Tail(s))

\* slice::sort_by is a stable sort: insertion of x after the last element
\* that is not strictly after it.
RECURSIVE InsertSorted(_, _)
InsertSorted(x, s) ==
    IF s = <<>> THEN <<x>>
    ELSE IF Before(x, Head(s)) THEN <<x>> \o s
         ELSE <<Head(s)>> \o InsertSorted(x, Tail(s))

RECURSIVE SortBy(_)
SortBy(s) ==
    IF s = <<>> THEN <<>>
    ELSE InsertSorted(s[Len(s)], SortBy(SubSeq(s, 1, Len(s) - 1)))

\* AdaptiveContextManager::prioritize_artifacts
prioritize_artifacts(cfg, artifacts) ==
    Truncate(SortBy(artifacts), recommended_snippet_count(cfg))

\* shrink_artifacts with min in place of max: at most 4 artifacts are kept.
shrink_artifacts_at_most_4(artifacts) ==
    LET target_count == (Len(artifacts) * 2) \div 3
    IN  Truncate(artifacts, Min(target_count, 4))

\* AdaptiveContextManager::shrink_artifacts
shrink_artifacts(artifacts) ==
    LET target_count == (Len(artifacts) * 2) \div 3
    IN  Truncate(artifacts, Max(target_count, 4))

TokensOfTurns(turns) == SumSeq([i \in 1..Len(turns) |-> estimate_tokens(turns[i])])
TokensOfArtifacts(arts) == SumSeq([i \in 1..Len(arts) |-> arts[i].token_count])

\* The message of the error of summarize_and_retry, and (standing for
\* e.to_string()) of the error that summarize_turns makes of a Summarizer
\* failure.
CannotFit == "Cannot fit context within budget even after summarization"
SummarizerError == "summarizer error"

\* summarize_and_retry without its own test of the total: the error is the
\* one allocate returns.
summarize_and_retry_unchecked(cfg, system_prompt, summarized_brief, recent_turns, artifacts) ==
    LET kept == IF recent_turns # <<>>
                THEN <<recent_turns[Len(recent_turns)]>> ELSE <<>>
        shrunk == shrink_artifacts(artifacts)
        system_tokens == estimate_tokens(system_prompt)
        brief_tokens == estimate_tokens(summarized_brief)
        turns_tokens == TokensOfTurns(kept)
        context_tokens == TokensOfArtifacts(shrunk)
        completion_tokens == cfg.completion
        allocation == allocate(cfg, system_tokens, brief_tokens, turns_tokens,
                               context_tokens, completion_tokens)
    IN  IF ~allocation.ok
        THEN [ok |-> FALSE, err |-> allocation.err, msg |-> ""]
        ELSE [ok |-> TRUE, path |-> "retry",
              system_prompt |-> system_prompt,
              running_brief |-> summarized_brief,
              recent_turns |-> kept,
              retrieved_snippets |-> shrunk,
              budget_allocation |-> allocation]

\* The AdaptiveContext that summarize_and_retry returns: the artifacts it
\* counted are not the artifacts it hands back.
summarize_and_retry_keeps_all(cfg, system_prompt, summarized_brief, recent_turns, artifacts) ==
    LET kept == IF recent_turns # <<>>
                THEN <<recent_turns[Len(recent_turns)]>> ELSE <<>>
        shrunk == shrink_artifacts(artifacts)
        system_tokens == estimate_tokens(system_prompt)
        brief_tokens == estimate_tokens(summarized_brief)
        turns_tokens == TokensOfTurns(kept)
        context_tokens == TokensOfArtifacts(shrunk)
        completion_tokens == cfg.completion
        total_tokens == system_tokens + brief_tokens + turns_tokens
                            + context_tokens + completion_tokens
        allocation == allocate(cfg, system_tokens, brief_tokens, turns_tokens,
                               context_tokens, completion_tokens)
    IN  IF total_tokens > cfg.max_total
        THEN [ok |-> FALSE, err |-> "Configuration", msg |-> CannotFit]
        ELSE IF ~allocation.ok
        THEN [ok |-> FALSE, err |-> allocation.err, msg |-> ""]
        ELSE [ok |-> TRUE, path |-> "retry",
              system_prompt |-> system_prompt,
              running_brief |-> summarized_brief,
              recent_turns |-> kept,
              retrieved_snippets |-> artifacts,
              budget_allocation |-> allocation]

\* AdaptiveContextManager::summarize_and_retry, from the point where
\* summarize_turns has returned summarized_brief.
summarize_and_retry(cfg, system_prompt, summarized_brief, recent_turns, artifacts) ==
    LET kept == IF recent_turns # <<>>
                THEN <<recent_turns[Len(recent_turns)]>> ELSE <<>>
        shrunk == shrink_artifacts(artifacts)
        system_tokens == estimate_tokens(system_prompt)
        brief_tokens == estimate_tokens(summarized_brief)
        turns_tokens == TokensOfTurns(kept)
        context_tokens == TokensOfArtifacts(shrunk)
        completion_tokens == cfg.completion
        total_tokens == system_tokens + brief_tokens + turns_tokens
                            + context_tokens + completion_tokens
        allocation == allocate(cfg, system_tokens, brief_tokens, turns_tokens,
                               context_tokens, completion_tokens)
    IN  IF total_tokens > cfg.max_total
        THEN [ok |-> FALSE, err |-> "Configuration", msg |-> CannotFit]
        ELSE IF ~allocation.ok
        THEN [ok |-> FALSE, err |-> allocation.err, msg |-> ""]
        ELSE [ok |-> TRUE, path |-> "retry",
              system_prompt |-> system_prompt,
              running_brief |-> summarized_brief,
              recent_turns |-> kept,
              retrieved_snippets |-> shrunk,
              budget_allocation |-> allocation]

\* The artifacts a caller passes: priority (Low = 1 .. Critical = 4), relevance.total
\* (in tenths) and the precomputed token_count.
ArtifactKinds ==
    {[priority |-> 1, relevance |-> 5, token_count |-> 1],
     [priority |-> 3, relevance |-> 5, token_count |-> 2],
     [priority |-> 3, relevance |-> 9, token_count |-> 1]}

\* Each artifact carries its position in the input as its id.
WithIds(kinds) == [i \in 1..Len(kinds) |->
                      [id |-> i, priority |-> kinds[i].priority,
                       relevance |-> kinds[i].relevance,
                       token_count |-> kinds[i].token_count]]

CtxInputs ==
    [system_prompt : {0, MaxWords},
     running_brief : 0..MaxWords,
     recent_turns : SeqsUpTo({1, MaxWords}, MaxTurns),
     artifacts : {WithIds(k) : k \in SeqsUpTo(ArtifactKinds, MaxArtifacts)}]

CtxIdle ==
    /\ ctxPc = "idle"
    /\ ctxSelected = <<>>
    /\ ctxCall = <<>>
    /\ ctxOut = NotReturned
    /\ llm = <<>>

InitCtx ==
    /\ budget \in BudgetConfigs
    /\ ctxIn \in CtxInputs
    /\ CtxIdle
    /\ ClockIdle
    /\ BreakerParked
    /\ CacheParked
    /\ ClientParked
    /\ FactsParked
    /\ AutodevParked

\* AdaptiveContextManager::build_context up to its first await that can
\* suspend: the Summarizer call inside summarize_turns.  With no recent turn
\* summarize_turns returns the brief unchanged and the retry runs at once.
BuildContext ==
    /\ ctxPc = "idle"
    /\ LET system_tokens == estimate_tokens(ctxIn.system_prompt)
           brief_tokens == estimate_tokens(ctxIn.running_brief)
           turns_tokens == TokensOfTurns(ctxIn.recent_turns)
           selected_artifacts == prioritize_artifacts(budget, ctxIn.artifacts)
           context_tokens == TokensOfArtifacts(selected_artifacts)
           completion_tokens == budget.completion
           total_tokens == system_tokens + brief_tokens + turns_tokens
                               + context_tokens + completion_tokens
           allocation == allocate(budget, system_tokens, brief_tokens,
                                  turns_tokens, context_tokens, completion_tokens)
       IN  /\ ctxSelected' = selected_artifacts
           /\ IF total_tokens > budget.max_total
              THEN IF ctxIn.recent_turns = <<>>
                   THEN /\ ctxPc' = "done"
                        /\ ctxCall' = ctxCall
                        /\ ctxOut' = summarize_and_retry(budget, ctxIn.system_prompt,
                                         ctxIn.running_brief, ctxIn.recent_turns,
                                         selected_artifacts)
                   ELSE /\ ctxPc' = "summarizing"
                        /\ ctxCall' = Append(ctxCall,
                                        [texts |-> <<ctxIn.running_brief>> \o ctxIn.recent_turns,
                                         target |-> budget.running_brief])
                        /\ ctxOut' = ctxOut
              ELSE /\ ctxPc' = "done"
                   /\ ctxCall' = ctxCall
                   /\ ctxOut' = IF ~allocation.ok
                                THEN [ok |-> FALSE, err |-> allocation.err]
                                ELSE [ok |-> TRUE, path |-> "first",
                                      system_prompt |-> ctxIn.system_prompt,
                                      running_brief |-> ctxIn.running_brief,
                                      recent_turns |-> ctxIn.recent_turns,
                                      retrieved_snippets |-> selected_artifacts,
                                      budget_allocation |-> allocation]
    /\ UNCHANGED <<llm, budget, ctxIn, now, brVars, caVars, clVars, faVars, adVars>>

\* What a Summarizer can return for the texts it was given: the
\* ConcatenationSummarizer joins them (all their words), the LLMSummarizer
\* returns whatever text the endpoint produced.
SummaryWords(texts) == (0..MaxWords) \cup {SumSeq(texts)}

\* The Summarizer returns Ok(summary): summarize_and_retry goes on.
SummarizerReturns ==
    /\ ctxPc = "summarizing"
    /\ \E summary \in SummaryWords(ctxCall[Len(ctxCall)].texts) :
          ctxOut' = summarize_and_retry(budget, ctxIn.system_prompt, summary,
                                        ctxIn.recent_turns, ctxSelected)
    /\ ctxPc' = "done"
    /\ UNCHANGED <<llm, budget, ctxIn, ctxSelected, ctxCall, now, brVars, caVars, clVars, faVars, adVars>>

\* The Summarizer returns Err: summarize_turns maps it to a Configuration
\* error and build_context returns it.
SummarizerFails ==
    /\ ctxPc = "summarizing"
    /\ ctxOut' = [ok |-> FALSE, err |-> "Configuration",
                  msg |-> SummarizerError]
    /\ ctxPc' = "done"
    /\ UNCHANGED <<llm, budget, ctxIn, ctxSelected, ctxCall, now, brVars, caVars, clVars, faVars, adVars>>

NextCtx ==
    \/ BuildContext
    \/ SummarizerReturns
    \/ SummarizerFails

SpecCtx == InitCtx /\ [][NextCtx]_vars

\* The tokens of what an AdaptiveContext holds, counted from its contents.
ContentTokens(c) ==
    estimate_tokens(c.system_prompt) + estimate_tokens(c.running_brief)
        + TokensOfTurns(c.recent_turns) + TokensOfArtifacts(c.retrieved_snippets)
        + budget.completion

CtxSucceeded == ctxPc = "done" /\ ctxOut.ok

BrIsOpen(op) ==
    LET e == EntryOrInsert(breakers, op)
        r == is_open(breakerCfg, e, now)
    IN  /\ breakers' = Put(breakers, op, r.entry)
        /\ brLast' = [op |-> "is_open", label |-> op, pre |-> e, at |-> now,
                      ret |-> r.ret]
        /\ UNCHANGED <<breakerCfg, now, ctxVars, faVars, adVars, caVars, clVars>>

\* A caller invokes breaker.mark_success(op).
BrMarkSuccess(op) ==
    LET e == EntryOrInsert(breakers, op)
    IN  /\ breakers' = Put(breakers, op, mark_success(e))
        /\ brLast' = [op |-> "mark_success", label |-> op, pre |-> e, at |-> now,
                      ret |-> FALSE]
        /\ UNCHANGED <<breakerCfg, now, ctxVars, faVars, adVars, caVars, clVars>>

\* A caller invokes breaker.mark_failure(op).
BrMarkFailure(op) ==
    LET e == EntryOrInsert(breakers, op)
    IN  /\ e.failure_count < MaxFailures
        /\ breakers' = Put(breakers, op, mark_failure(breakerCfg, e, now))
        /\ brLast' = [op |-> "mark_failure", label |-> op, pre |-> e, at |-> now,
                      ret |-> FALSE]
        /\ UNCHANGED <<breakerCfg, now, ctxVars, faVars, adVars, caVars, clVars>>

\* A reset(op) that clears the whole map, as reset_all does.
BrResetAll(op) ==
    /\ breakers' = <<>>
    /\ brLast' = [op |-> "reset", label |-> op, pre |-> EntryOrInsert(breakers, op),
                  at |-> now, ret |-> FALSE]
    /\ UNCHANGED <<breakerCfg, now, ctxVars, faVars, adVars, caVars, clVars>>

\* A caller invokes breaker.reset(op): the entry is removed from the map.
BrReset(op) ==
    /\ breakers' = Remove(breakers, op)
    /\ brLast' = [op |-> "reset", label |-> op, pre |-> EntryOrInsert(breakers, op),
                  at |-> now, ret |-> FALSE]
    /\ UNCHANGED <<breakerCfg, now, ctxVars, faVars, adVars, caVars, clVars>>

BrTick == Tick /\ UNCHANGED <<brVars, ctxVars, faVars, adVars, caVars, clVars>>

InitBreaker ==
    /\ breakerCfg \in BreakerConfigs
    /\ breakers = <<>>
    /\ brLast = NoCall
    /\ ClockIdle
    /\ CtxParked
    /\ CacheParked
    /\ ClientParked
    /\ FactsParked
    /\ AutodevParked

BreakerLabels == {"decode", "index"}

NextBreaker ==
    \/ BrTick
    \/ \E op \in BreakerLabels : BrIsOpen(op)
    \/ \E op \in BreakerLabels : BrMarkSuccess(op)
    \/ \E op \in BreakerLabels : BrMarkFailure(op)
    \/ \E op \in BreakerLabels : BrReset(op)

SpecBreaker == InitBreaker /\ [][NextBreaker]_vars

\* The entry of the label of the last breaker call, as that call left it.
BrPost == EntryOrInsert(breakers, brLast.label)

BrOpenedAt == brLast.pre.opened_at[1]

\* C2: for each operation label, (a) is_open on a Closed entry with fewer
\* than failure_threshold failures returns false and changes nothing; (b)
\* a mark_failure that is not yet the failure_threshold-th leaves the entry
\* Closed, and the failure_threshold-th moves it to Open with opened_at the
\* time of the call; (c) every is_open call on an Open entry during
\* [opened_at, opened_at + reset_timeout) returns true and leaves it Open;
\* (d) an is_open call on an Open entry at or after opened_at + reset_timeout
\* returns false and moves the entry to HalfOpen (the first such call: the
\* entry is Open no longer).
C2_BreakerTransitions ==
    /\ (brLast.op = "is_open" /\ brLast.pre.state = "Closed"
            /\ brLast.pre.failure_count < breakerCfg.failure_threshold)
          => (~brLast.ret /\ BrPost = brLast.pre)
    /\ (brLast.op = "mark_failure" /\ brLast.pre.state = "Closed")
          => IF brLast.pre.failure_count + 1 = breakerCfg.failure_threshold
             THEN BrPost = [state |-> "Open",
                            failure_count |-> breakerCfg.failure_threshold,
                            opened_at |-> Some(brLast.at)]
             ELSE /\ brLast.pre.failure_count + 1 < breakerCfg.failure_threshold
                  /\ BrPost.state = "Closed"
                  /\ BrPost.failure_count = brLast.pre.failure_count + 1
    /\ (brLast.op = "is_open" /\ brLast.pre.state = "Open")
          => /\ brLast.pre.opened_at # NoInstant
             /\ BrOpenedAt <= brLast.at
             /\ IF brLast.at < BrOpenedAt + breakerCfg.reset_timeout
                THEN brLast.ret /\ BrPost = brLast.pre
                ELSE ~brLast.ret /\ BrPost = [brLast.pre EXCEPT !.state = "HalfOpen"]

\* C2 witness: an is_open probe made exactly reset_timeout after the
\* failure_threshold-th failure opened the circuit; it returned false and
\* left the entry HalfOpen.
C2_Witness ==
    /\ brLast.op = "is_open"
    /\ brLast.pre.state = "Open"
    /\ brLast.pre.failure_count = breakerCfg.failure_threshold
    /\ breakerCfg.reset_timeout > 0
    /\ brLast.at = BrOpenedAt + breakerCfg.reset_timeout
    /\ ~brLast.ret
    /\ BrPost.state = "HalfOpen"

(***************************************************************************)
(*                      DECODE CACHE: OPERATIONS                           *)
(***************************************************************************)

\* HashMap::get: <<>> is None, <<entry>> is Some(entry).
Lookup(c, key) == IF key \in DOMAIN c THEN <<c[key]>> ELSE <<>>

\* A caller invokes cache.get(region_id, fidelity).
CaGet(r, f) ==
    LET g == get(cacheCfg, cache, Key(r, f), now)
    IN  /\ cache' = g.cache
        /\ caLast' = [op |-> "get", key |-> Key(r, f), at |-> now,
                      pre |-> Lookup(cache, Key(r, f)), ret |-> g.ret]
        /\ UNCHANGED <<cacheCfg, split, now, ctxVars, faVars, adVars, brVars, clVars>>

\* A caller invokes cache.store(region_id, fidelity, result).  Every caller
\* in the repository stores a result under the result's own region_id.
CaStore(r, f, text) ==
    /\ cache' \in store(cacheCfg, cache, Key(r, f), DecodeResult(r, text), now)
    /\ caLast' = [op |-> "store", key |-> Key(r, f), at |-> now,
                  pre |-> Lookup(cache, Key(r, f)), ret |-> <<>>]
    /\ UNCHANGED <<cacheCfg, split, now, ctxVars, faVars, adVars, brVars, clVars>>

\* A caller invokes cache.store_batch(results, fidelity).
CaStoreBatch(results, f) ==
    /\ cache' \in store_batch(cacheCfg, cache, results, f, now)
    /\ caLast' = [op |-> "store_batch", key |-> <<>>, at |-> now, pre |-> <<>>,
                  ret |-> <<>>]
    /\ UNCHANGED <<cacheCfg, split, now, ctxVars, faVars, adVars, brVars, clVars>>

\* A caller invokes cache.clear_expired().
CaClearExpired ==
    /\ cache' = clear_expired(cacheCfg, cache, now)
    /\ caLast' = [op |-> "clear_expired", key |-> <<>>, at |-> now, pre |-> <<>>,
                  ret |-> <<>>]
    /\ UNCHANGED <<cacheCfg, split, now, ctxVars, faVars, adVars, brVars, clVars>>

\* A caller invokes cache.split_hits(region_ids, fidelity): the lists start
\* empty.
CaSplitStart(ids, f) ==
    /\ split.pc # "loop"
    /\ split' = [pc |-> "loop", ids |-> ids, fidelity |-> f, i |-> 1,
                 hits |-> <<>>, misses |-> <<>>]
    /\ UNCHANGED <<cacheCfg, cache, caLast, now, ctxVars, faVars, adVars, brVars, clVars>>

\* One iteration of the loop of split_hits: self.get(region_id, fidelity),
\* which takes the lock and reads the clock on its own; other callers and the
\* clock move between two iterations.
CaSplitStep ==
    /\ split.pc = "loop"
    /\ split.i <= Len(split.ids)
    /\ LET r == split.ids[split.i]
           g == get(cacheCfg, cache, Key(r, split.fidelity), now)
       IN  /\ cache' = g.cache
           /\ caLast' = [op |-> "get", key |-> Key(r, split.fidelity), at |-> now,
                         pre |-> Lookup(cache, Key(r, split.fidelity)), ret |-> g.ret]
           /\ split' = IF g.ret # <<>>
                       THEN [split EXCEPT !.i = @ + 1, !.hits = Append(@, g.ret[1])]
                       ELSE [split EXCEPT !.i = @ + 1, !.misses = Append(@, r)]
    /\ UNCHANGED <<cacheCfg, now, ctxVars, faVars, adVars, brVars, clVars>>

\* split_hits returns (hits, misses).
CaSplitReturn ==
    /\ split.pc = "loop"
    /\ split.i > Len(split.ids)
    /\ split' = [split EXCEPT !.pc = "returned"]
    /\ UNCHANGED <<cacheCfg, cache, caLast, now, ctxVars, faVars, adVars, brVars, clVars>>

CaTick == Tick /\ UNCHANGED <<caVars, ctxVars, faVars, adVars, brVars, clVars>>

InitCache ==
    /\ cacheCfg \in CacheConfigs
    /\ cache = <<>>
    /\ caLast = NoCall
    /\ split = NoSplit
    /\ ClockIdle
    /\ CtxParked
    /\ BreakerParked
    /\ ClientParked
    /\ FactsParked
    /\ AutodevParked

IdLists == SeqsUpTo(Regions, MaxIds) \ {<<>>}

\* The result lists store_batch is called with: one result per region.
Batches == {<<DecodeResult("r1", "X")>>,
            <<DecodeResult("r1", "Y"), DecodeResult("r2", "Y")>>}

NextCache ==
    \/ CaTick
    \/ \E r \in Regions, f \in Fidelities : CaGet(r, f)
    \/ \E r \in Regions, f \in Fidelities, x \in Texts : CaStore(r, f, x)
    \/ \E b \in Batches, f \in Fidelities : CaStoreBatch(b, f)
    \/ CaClearExpired

SpecCache == InitCache /\ [][NextCache]_vars

\* C3: a get on an entry stored at t0 and read at t1 returns the stored
\* result iff t1 - t0 < ttl (and leaves the entry in place); otherwise it
\* returns None and the entry is gone from the map, so that no later get can
\* return it.  A get on an absent key returns None.
C3_GetHonoursTtl ==
    caLast.op = "get" =>
        IF caLast.pre = <<>>
        THEN caLast.ret = <<>> /\ caLast.key \notin DOMAIN cache
        ELSE IF caLast.at - caLast.pre[1].inserted_at < cacheCfg.ttl
             THEN /\ caLast.ret = <<caLast.pre[1].result>>
                  /\ Lookup(cache, caLast.key) = caLast.pre
             ELSE /\ caLast.ret = <<>>
                  /\ caLast.key \notin DOMAIN cache

\* C3 witness: a get made exactly ttl after the store found the entry
\* expired, returned None and removed it.
C3_Witness ==
    /\ caLast.op = "get"
    /\ caLast.pre # <<>>
    /\ cacheCfg.ttl > 0
    /\ caLast.at - caLast.pre[1].inserted_at = cacheCfg.ttl
    /\ caLast.ret = <<>>
    /\ caLast.key \notin DOMAIN cache

\* C4: after any sequence of store, store_batch, get and clear_expired calls
\* the cache holds at most max_size entries.
C4_SizeWithinMax == Cardinality(DOMAIN cache) <= cacheCfg.max_size

\* The part of C4 that the code keeps: with max_size >= 1 the bound holds.
C4_SizeWithinMaxFromOne ==
    cacheCfg.max_size >= 1 => Cardinality(DOMAIN cache) <= cacheCfg.max_size

\* The part of C4 that the code keeps: a store of a new key into a cache
\* at capacity (and not empty) removes exactly one entry, one of minimal
\* inserted_at; any other store removes none.
C4_StoreEvictsOldest ==
    [][\A r \in Regions, f \in Fidelities, x \in Texts :
          CaStore(r, f, x) =>
             LET gone == DOMAIN cache \ DOMAIN cache'
             IN  /\ Key(r, f) \in DOMAIN cache'
                 /\ \A k \in DOMAIN cache \cap DOMAIN cache' :
                       k # Key(r, f) => cache'[k] = cache[k]
                 /\ IF /\ Cardinality(DOMAIN cache) >= cacheCfg.max_size
                       /\ Key(r, f) \notin DOMAIN cache
                       /\ DOMAIN cache # {}
                    THEN \E k \in Oldest(cache) : gone = {k}
                    ELSE gone = {}]_vars

\* split_hits running while time passes and other callers store and sweep.
NextSplit ==
    \/ CaTick
    \/ \E ids \in IdLists : CaSplitStart(ids, "10x")
    \/ CaSplitStep
    \/ CaSplitReturn
    \/ \E r \in Regions : CaStore(r, "10x", "X")
    \/ CaClearExpired

\* split_hits is exercised on a cache that can hold an entry for a while.
InitSplit ==
    /\ InitCache
    /\ cacheCfg.ttl >= 1
    /\ cacheCfg.max_size >= 1

SpecSplit == InitSplit /\ [][NextSplit]_vars

\* a is a subsequence of b: its elements occur in b in the same order.
RECURSIVE IsSubSeq(_, _)
IsSubSeq(a, b) ==
    IF a = <<>> THEN TRUE
    ELSE IF b = <<>> THEN FALSE
    ELSE IF Head(a) = Head(b) THEN IsSubSeq(Tail(a), Tail(b))
    ELSE IsSubSeq(a, Tail(b))

HitIds == [i \in 1..Len(split.hits) |-> split.hits[i].region_id]

Range(q) == {q[i] : i \in 1..Len(q)}

\* C5: split_hits(ids, fidelity) on a non-empty list returns (hits, misses)
\* with |hits| + |misses| = |ids|, no region id both among the hits and
\* among the misses, and each list in the order of ids, whatever the
\* repetitions in ids and whatever expires or is stored during the call.
C5_SplitPartitions ==
    split.pc = "returned" =>
        /\ Len(split.hits) + Len(split.misses) = Len(split.ids)
        /\ Range(HitIds) \cap Range(split.misses) = {}
        /\ IsSubSeq(HitIds, split.ids)
        /\ IsSubSeq(split.misses, split.ids)

\* The part of C5 that the code keeps: the counts add up and each list is
\* in the order of ids.
C5_SplitCountsAndOrder ==
    split.pc = "returned" =>
        /\ Len(split.hits) + Len(split.misses) = Len(split.ids)
        /\ IsSubSeq(HitIds, split.ids)
        /\ IsSubSeq(split.misses, split.ids)

(***************************************************************************)
(*                             OCR CLIENT                                  *)
(***************************************************************************)

\* Bounds: the retry_attempts and max_concurrent_decodes a client is
\* configured with.
MaxRetryAttempts == 1
MaxPermits == 1

\* u32::BITS: 2_u32.pow(n) overflows from n = 32 on.
U32Bits == 32

\* The callers of the client; each has at most one call in progress.
Callers == {"a", "b"}

\* The id lists and the fidelity decode_regions is called with.
DistinctIds == {<<"r1">>, <<"r1", "r2">>}
DecodeIds == DistinctIds \cup {<<"r1", "r1">>}
DecodeFidelity == "10x"

\* How an upstream attempt ends: a 2xx reply with a parseable body, a
\* transport error, a transport timeout, a non-2xx status, or a 2xx reply
\* whose body does not parse.
Outcomes == {"ok", "transport", "timeout", "status", "body"}
ErrOutcomes == Outcomes \ {"ok"}

\* The OcrError each failed attempt is mapped to.
error_of(o) ==
    CASE o = "transport" -> "RequestFailed"
      [] o = "timeout" -> "Timeout"
      [] o = "status" -> "UpstreamError"
      [] OTHER -> "InvalidResponse"

\* Result<_, OcrError>; Pending while the call has not returned, Panic when
\* the call unwound instead of returning.
NoResult == [tag |-> "Pending", label |-> "", results |-> <<>>]
Ok(results) == [tag |-> "Ok", label |-> "", results |-> results]
Err(tag, label) == [tag |-> tag, label |-> label, results |-> <<>>]

\* A Duration of ms * 2^exp milliseconds; the exponent is kept apart because
\* 2^31 and above do not fit the integers of the checker.  Zero is
\* [ms |-> 0, exp |-> 0].
Duration(ms, exp) == [tag |-> "dur", ms |-> ms, exp |-> exp]
Panicked == [tag |-> "panic", ms |-> 0, exp |-> 0]
NoSleep == [tag |-> "none", ms |-> 0, exp |-> 0]

\* 2_u32.pow(n): the value 2^n below 32; from 32 on the multiplication
\* overflows, which panics in a build with overflow checks and wraps to 0 in
\* a build without.
pow_u32(n) ==
    IF n < U32Bits
    THEN {[tag |-> "pow2", exp |-> n]}
    ELSE {[tag |-> "panic", exp |-> 0], [tag |-> "zero", exp |-> 0]}

\* Duration::saturating_mul(base, multiplier); base is at most a few
\* milliseconds here, so the product stays below Duration::MAX.
saturating_mul(base, m) ==
    IF base = 0 \/ m.tag = "zero" THEN Duration(0, 0) ELSE Duration(base, m.exp)

\* DeepseekOcrClient::calculate_backoff: what the call can yield.
calculate_backoff(base, attempt) ==
    {IF m.tag = "panic" THEN Panicked ELSE saturating_mul(base, m) :
        m \in pow_u32(attempt - 1)}

\* The ticks a tokio::time::sleep(d) lasts; anything beyond the horizon of
\* the clock is MaxTime + 1 (2^exp > MaxTime when exp >= MaxTime).
Ticks(d) ==
    IF d.ms = 0 THEN 0
    ELSE IF d.exp >= MaxTime THEN MaxTime + 1
    ELSE Min(d.ms * 2^d.exp, MaxTime + 1)

\* A caller with no call in progress.  A call in progress records: its
\* kind and arguments; pc, where it stands; hits and misses of split_hits;
\* probed, what is_open answered; permit, whether it holds a semaphore permit;
\* attempt, the upstream attempts started; sent, the ids of the last upstream
\* request; backoff and wake, the last sleep; outcome, reply and marks, how
\* the last upstream attempt ended and how many breaker updates followed it;
\* result, what the call returned.
IdleCall ==
    [kind |-> "none", pc |-> "idle", ids |-> <<>>, hits |-> <<>>,
     misses |-> <<>>, probed |-> "unprobed", permit |-> FALSE, attempt |-> 0,
     sent |-> <<>>, backoff |-> NoSleep, wake |-> 0, outcome |-> "none",
     reply |-> <<>>, marks |-> 0, result |-> NoResult]

\* The region ids decode_regions hands to call_decode_api: &misses.
decode_args(c) == c.misses

\* The top of the retry loop: attempt += 1 and the request is sent.
Send(c) == [c EXCEPT !.attempt = @ + 1, !.sent = decode_args(c), !.pc = "await"]

\* The breaker calls each handler makes after an upstream attempt that
\* ended with outcome o.
decode_marks(o) == IF o = "ok" THEN <<"success">> ELSE <<"failure">>
index_marks(o) ==
    CASE o = "ok" -> <<"success">>
      [] o \in {"transport", "timeout", "status"} -> <<"failure">>
      [] OTHER -> <<>>
status_marks(o) == <<>>

RECURSIVE ApplyMarks(_, _, _, _)
ApplyMarks(cfg, e, ms, t) ==
    IF ms = <<>> THEN e
    ELSE ApplyMarks(cfg,
                    IF Head(ms) = "success" THEN mark_success(e)
                    ELSE mark_failure(cfg, e, t),
                    Tail(ms), t)

\* The breaker map after the calls ms on label.
Marked(cfg, b, label, ms, t) ==
    IF ms = <<>> THEN b
    ELSE Put(b, label, ApplyMarks(cfg, EntryOrInsert(b, label), ms, t))

\* failure_count stays below cap when ms records a failure.
CanMark(b, label, ms, cap) ==
    IF ms = <<>> THEN TRUE
    ELSE IF Head(ms) = "success" THEN TRUE
    ELSE EntryOrInsert(b, label).failure_count < cap

\* The bodies a 2xx decode reply can carry: one result per requested id,
\* with a text out of texts.
DecodeReplies(sent, texts) ==
    {[k \in 1..Len(sent) |-> DecodeResult(sent[k], x)] : x \in texts}

\* A caller invokes decode_regions(ids, DecodeFidelity): the enabled check;
\* split_hits starts with both lists empty.
DecodeRegions(i, ids) ==
    /\ reqs[i].pc \in {"idle", "done"}
    /\ reqs' = [reqs EXCEPT ![i] =
                  IF ~clientCfg.enabled
                  THEN [IdleCall EXCEPT !.kind = "decode", !.ids = ids,
                                        !.pc = "done",
                                        !.result = Err("Disabled", "")]
                  ELSE [IdleCall EXCEPT !.kind = "decode", !.ids = ids,
                                        !.pc = "split"]]
    /\ UNCHANGED <<clientCfg, permits, decodeRun, now, ctxVars, faVars, adVars, brVars, caVars>>

\* One iteration of the loop of split_hits inside decode_regions: a get,
\* which takes the cache lock and reads the clock on its own.  After the
\* last id the call returns the hits when nothing missed, and goes on to the
\* breaker check otherwise.
DecSplitStep(i) ==
    /\ reqs[i].pc = "split"
    /\ LET c == reqs[i]
           k == Len(c.hits) + Len(c.misses) + 1
           g == get(cacheCfg, cache, Key(c.ids[k], DecodeFidelity), now)
           d == IF g.ret # <<>>
                THEN [c EXCEPT !.hits = Append(@, g.ret[1])]
                ELSE [c EXCEPT !.misses = Append(@, c.ids[k])]
       IN  /\ cache' = g.cache
           /\ reqs' = [reqs EXCEPT ![i] =
                         IF k < Len(c.ids) THEN d
                         ELSE IF d.misses = <<>>
                              THEN [d EXCEPT !.pc = "done", !.result = Ok(d.hits)]
                              ELSE [d EXCEPT !.pc = "check"]]
    /\ UNCHANGED <<clientCfg, permits, decodeRun, cacheCfg, caLast, split, now,
                   ctxVars, faVars, adVars, brVars>>

\* decode_regions with the breaker check skipped: the call goes on whatever
\* is_open answered.
DecCheckUnguarded(i) ==
    /\ reqs[i].pc = "check"
    /\ LET r == is_open(breakerCfg, EntryOrInsert(breakers, "decode"), now)
       IN  /\ breakers' = Put(breakers, "decode", r.entry)
           /\ reqs' = [reqs EXCEPT ![i] =
                         [@ EXCEPT !.probed = IF r.ret THEN "open" ELSE "closed",
                                   !.pc = "acquire"]]
    /\ UNCHANGED <<clientCfg, permits, decodeRun, breakerCfg, brLast, now,
                   ctxVars, faVars, adVars, caVars>>

\* decode_regions checks the breaker: is_open("decode").
DecCheck(i) ==
    /\ reqs[i].pc = "check"
    /\ LET r == is_open(breakerCfg, EntryOrInsert(breakers, "decode"), now)
       IN  /\ breakers' = Put(breakers, "decode", r.entry)
           /\ reqs' = [reqs EXCEPT ![i] =
                         IF r.ret
                         THEN [@ EXCEPT !.probed = "open", !.pc = "done",
                                        !.result = Err("CircuitOpen", "decode")]
                         ELSE [@ EXCEPT !.probed = "closed", !.pc = "acquire"]]
    /\ UNCHANGED <<clientCfg, permits, decodeRun, breakerCfg, brLast, now,
                   ctxVars, faVars, adVars, caVars>>

\* The first attempt started without waiting for a permit.
DecAcquireUngated(i) ==
    /\ reqs[i].pc = "acquire"
    /\ permits' = permits - 1
    /\ reqs' = [reqs EXCEPT ![i] = Send([@ EXCEPT !.permit = TRUE])]
    /\ UNCHANGED <<clientCfg, decodeRun, now, ctxVars, faVars, adVars, brVars, caVars>>

\* semaphore.acquire() completes; the retry loop starts its first attempt.
DecAcquire(i) ==
    /\ reqs[i].pc = "acquire"
    /\ permits > 0
    /\ permits' = permits - 1
    /\ reqs' = [reqs EXCEPT ![i] = Send([@ EXCEPT !.permit = TRUE])]
    /\ UNCHANGED <<clientCfg, decodeRun, now, ctxVars, faVars, adVars, brVars, caVars>>

\* The Ok arm with store_batch left out: the call returns the results and
\* caches none.
DecReplyOkUnstored(i, results) ==
    /\ reqs[i].pc = "await"
    /\ reqs[i].kind = "decode"
    /\ breakers' = Marked(breakerCfg, breakers, "decode", decode_marks("ok"), now)
    /\ cache' = cache
    /\ reqs' = [reqs EXCEPT ![i] =
                  [@ EXCEPT !.outcome = "ok", !.reply = results,
                            !.marks = Len(decode_marks("ok")),
                            !.pc = "done", !.permit = FALSE,
                            !.result = Ok(reqs[i].hits \o results)]]
    /\ permits' = permits + 1
    /\ decodeRun' = NoRun
    /\ UNCHANGED <<clientCfg, breakerCfg, brLast, cacheCfg, caLast, split, now,
                   ctxVars, faVars, adVars>>

\* call_decode_api returns Ok(results): mark_success, store_batch, and the
\* call returns the hits followed by the results; the permit is dropped.
DecReplyOk(i, results) ==
    /\ reqs[i].pc = "await"
    /\ reqs[i].kind = "decode"
    /\ breakers' = Marked(breakerCfg, breakers, "decode", decode_marks("ok"), now)
    /\ cache' \in store_batch(cacheCfg, cache, results, DecodeFidelity, now)
    /\ reqs' = [reqs EXCEPT ![i] =
                  [@ EXCEPT !.outcome = "ok", !.reply = results,
                            !.marks = Len(decode_marks("ok")),
                            !.pc = "done", !.permit = FALSE,
                            !.result = Ok(reqs[i].hits \o results)]]
    /\ permits' = permits + 1
    /\ decodeRun' = NoRun
    /\ UNCHANGED <<clientCfg, breakerCfg, brLast, cacheCfg, caLast, split, now,
                   ctxVars, faVars, adVars>>

\* call_decode_api returns Err(e) after outcome o: mark_failure; the error
\* is returned when attempt > retry_attempts, otherwise the call sleeps for
\* calculate_backoff(attempt).  A panic in calculate_backoff unwinds the
\* call, which drops the permit.
DecReplyErr(i, o, cap) ==
    /\ reqs[i].pc = "await"
    /\ reqs[i].kind = "decode"
    /\ CanMark(breakers, "decode", decode_marks(o), cap)
    /\ breakers' = Marked(breakerCfg, breakers, "decode", decode_marks(o), now)
    /\ decodeRun' = [fails |-> Min(decodeRun.fails + 1, breakerCfg.failure_threshold),
                     at |-> now]
    /\ LET c == [reqs[i] EXCEPT !.outcome = o, !.reply = <<>>,
                                !.marks = Len(decode_marks(o))]
       IN  IF c.attempt > clientCfg.retry_attempts
           THEN /\ reqs' = [reqs EXCEPT ![i] =
                              [c EXCEPT !.pc = "done", !.permit = FALSE,
                                        !.result = Err(error_of(o), "")]]
                /\ permits' = permits + 1
           ELSE \E d \in calculate_backoff(clientCfg.retry_backoff, c.attempt) :
                  IF d = Panicked
                  THEN /\ reqs' = [reqs EXCEPT ![i] =
                                     [c EXCEPT !.pc = "done", !.permit = FALSE,
                                               !.result = Err("Panic", "")]]
                       /\ permits' = permits + 1
                  ELSE /\ reqs' = [reqs EXCEPT ![i] =
                                     [c EXCEPT !.pc = "sleep", !.backoff = d,
                                               !.wake = Min(now + Ticks(d),
                                                            MaxTime + 1)]]
                       /\ permits' = permits
    /\ UNCHANGED <<clientCfg, breakerCfg, brLast, now, ctxVars, faVars, adVars, caVars>>

\* The sleep is over: the loop starts the next attempt.
DecWake(i) ==
    /\ reqs[i].pc = "sleep"
    /\ now >= reqs[i].wake
    /\ reqs' = [reqs EXCEPT ![i] = Send([@ EXCEPT !.backoff = NoSleep, !.wake = 0])]
    /\ UNCHANGED <<clientCfg, permits, decodeRun, now, ctxVars, faVars, adVars, brVars, caVars>>

\* index_document with the breaker consulted ahead of the enabled check.
IndexDocumentBreakerFirst(i) ==
    /\ reqs[i].pc \in {"idle", "done"}
    /\ LET c == [IdleCall EXCEPT !.kind = "index"]
           r == is_open(breakerCfg, EntryOrInsert(breakers, "index"), now)
       IN  /\ breakers' = Put(breakers, "index", r.entry)
           /\ reqs' = [reqs EXCEPT ![i] =
                         IF r.ret
                         THEN [c EXCEPT !.probed = "open", !.pc = "done",
                                        !.result = Err("CircuitOpen", "index")]
                         ELSE IF ~clientCfg.enabled
                         THEN [c EXCEPT !.probed = "closed", !.pc = "done",
                                        !.result = Err("Disabled", "")]
                         ELSE [c EXCEPT !.probed = "closed", !.attempt = 1,
                                        !.pc = "await"]]
    /\ UNCHANGED <<clientCfg, permits, decodeRun, breakerCfg, brLast, now,
                   ctxVars, faVars, adVars, caVars>>

\* A caller invokes index_document: the enabled check, is_open("index"),
\* and the request is sent.
IndexDocument(i) ==
    /\ reqs[i].pc \in {"idle", "done"}
    /\ LET c == [IdleCall EXCEPT !.kind = "index"]
           r == is_open(breakerCfg, EntryOrInsert(breakers, "index"), now)
       IN  IF ~clientCfg.enabled
           THEN /\ reqs' = [reqs EXCEPT ![i] =
                              [c EXCEPT !.pc = "done",
                                        !.result = Err("Disabled", "")]]
                /\ breakers' = breakers
           ELSE /\ breakers' = Put(breakers, "index", r.entry)
                /\ reqs' = [reqs EXCEPT ![i] =
                              IF r.ret
                              THEN [c EXCEPT !.probed = "open", !.pc = "done",
                                             !.result = Err("CircuitOpen", "index")]
                              ELSE [c EXCEPT !.probed = "closed", !.attempt = 1,
                                             !.pc = "await"]]
    /\ UNCHANGED <<clientCfg, permits, decodeRun, breakerCfg, brLast, now,
                   ctxVars, faVars, adVars, caVars>>

\* The upstream attempt of index_document ends with outcome o.
IdxReply(i, o, cap) ==
    /\ reqs[i].pc = "await"
    /\ reqs[i].kind = "index"
    /\ CanMark(breakers, "index", index_marks(o), cap)
    /\ breakers' = Marked(breakerCfg, breakers, "index", index_marks(o), now)
    /\ reqs' = [reqs EXCEPT ![i] =
                  [@ EXCEPT !.outcome = o, !.marks = Len(index_marks(o)),
                            !.pc = "done",
                            !.result = IF o = "ok" THEN Ok(<<>>)
                                       ELSE Err(error_of(o), "")]]
    /\ UNCHANGED <<clientCfg, permits, decodeRun, breakerCfg, brLast, now,
                   ctxVars, faVars, adVars, caVars>>

\* A caller invokes get_job_status: the enabled check, and the request is
\* sent.
GetJobStatus(i) ==
    /\ reqs[i].pc \in {"idle", "done"}
    /\ LET c == [IdleCall EXCEPT !.kind = "status"]
       IN  reqs' = [reqs EXCEPT ![i] =
                      IF ~clientCfg.enabled
                      THEN [c EXCEPT !.pc = "done", !.result = Err("Disabled", "")]
                      ELSE [c EXCEPT !.attempt = 1, !.pc = "await"]]
    /\ UNCHANGED <<clientCfg, permits, decodeRun, now, ctxVars, faVars, adVars, brVars, caVars>>

\* The upstream attempt of get_job_status ends with outcome o.
StReply(i, o) ==
    /\ reqs[i].pc = "await"
    /\ reqs[i].kind = "status"
    /\ breakers' = Marked(breakerCfg, breakers, "status", status_marks(o), now)
    /\ reqs' = [reqs EXCEPT ![i] =
                  [@ EXCEPT !.outcome = o, !.marks = Len(status_marks(o)),
                            !.pc = "done",
                            !.result = IF o = "ok" THEN Ok(<<>>)
                                       ELSE Err(error_of(o), "")]]
    /\ UNCHANGED <<clientCfg, permits, decodeRun, breakerCfg, brLast, now,
                   ctxVars, faVars, adVars, caVars>>

ClTick == Tick /\ UNCHANGED <<clVars, ctxVars, faVars, adVars, brVars, caVars>>

\* DeepseekOcrClient::new: the cache, the semaphore and the breaker are built
\* from the configuration.
ClientConfigs ==
    [enabled : BOOLEAN, retry_attempts : 0..MaxRetryAttempts,
     retry_backoff : {1}, max_concurrent_decodes : 1..MaxPermits]

ClientBreakerConfigs ==
    [failure_threshold : 1..MaxThreshold, reset_timeout : {MaxResetTimeout}]

ClientCacheConfigs == [ttl : {MaxTtl}, max_size : {MaxCacheSize}]

\* The same with a cache too small for the regions of one request as well.
SmallCacheConfigs == [ttl : {MaxTtl}, max_size : {1, MaxCacheSize}]

ClientNew(callers, cfgs, caches) ==
    /\ clientCfg \in cfgs
    /\ reqs = [i \in callers |-> IdleCall]
    /\ permits = clientCfg.max_concurrent_decodes
    /\ decodeRun = NoRun
    /\ breakerCfg \in ClientBreakerConfigs
    /\ breakers = <<>>
    /\ brLast = NoCall
    /\ cacheCfg \in caches
    /\ cache = <<>>
    /\ caLast = NoCall
    /\ split = NoSplit
    /\ ClockIdle
    /\ CtxParked
    /\ FactsParked
    /\ AutodevParked

\* Concurrent decode_regions calls, each for distinct ids.
InitClient == ClientNew(Callers, ClientConfigs, ClientCacheConfigs)

NextClient ==
    \/ ClTick
    \/ \E i \in Callers, ids \in DistinctIds : DecodeRegions(i, ids)
    \/ \E i \in Callers : DecSplitStep(i)
    \/ \E i \in Callers : DecCheck(i)
    \/ \E i \in Callers : DecAcquire(i)
    \/ \E i \in Callers : \E rs \in DecodeReplies(reqs[i].sent, {"Y"}) :
          DecReplyOk(i, rs)
    \/ \E i \in Callers, o \in {"timeout", "status"} :
          DecReplyErr(i, o, MaxFailures)
    \/ \E i \in Callers : DecWake(i)

SpecClient == InitClient /\ [][NextClient]_vars

\* One caller making decode_regions, index_document and get_job_status
\* calls one after the other, every outcome of an upstream attempt included.
Solo == {"a"}

InitCalls == ClientNew(Solo, ClientConfigs, SmallCacheConfigs)

NextCalls ==
    \/ ClTick
    \/ \E i \in Solo, ids \in DecodeIds : DecodeRegions(i, ids)
    \/ \E i \in Solo : DecSplitStep(i)
    \/ \E i \in Solo : DecCheck(i)
    \/ \E i \in Solo : DecAcquire(i)
    \/ \E i \in Solo : \E rs \in DecodeReplies(reqs[i].sent, Texts) :
          DecReplyOk(i, rs)
    \/ \E i \in Solo, o \in ErrOutcomes : DecReplyErr(i, o, MaxFailures)
    \/ \E i \in Solo : DecWake(i)
    \/ \E i \in Solo : IndexDocument(i)
    \/ \E i \in Solo, o \in Outcomes : IdxReply(i, o, MaxFailures)
    \/ \E i \in Solo : GetJobStatus(i)
    \/ \E i \in Solo, o \in Outcomes : StReply(i, o)

SpecCalls == InitCalls /\ [][NextCalls]_vars

\* One caller on a client configured with as many retries as calculate_backoff
\* can take (U32Bits) and with one more.
RetryConfigs ==
    [enabled : {TRUE}, retry_attempts : {U32Bits, U32Bits + 1},
     retry_backoff : {0, 1}, max_concurrent_decodes : {1}]

InitRetry == ClientNew(Solo, RetryConfigs, ClientCacheConfigs)

NextRetry ==
    \/ ClTick
    \/ \E i \in Solo, ids \in DecodeIds : DecodeRegions(i, ids)
    \/ \E i \in Solo : DecSplitStep(i)
    \/ \E i \in Solo : DecCheck(i)
    \/ \E i \in Solo : DecAcquire(i)
    \/ \E i \in Solo : \E rs \in DecodeReplies(reqs[i].sent, {"Y"}) :
          DecReplyOk(i, rs)
    \/ \E i \in Solo, o \in {"timeout", "status"} :
          DecReplyErr(i, o, U32Bits + 2)
    \/ \E i \in Solo : DecWake(i)

SpecRetry == InitRetry /\ [][NextRetry]_vars

\* The decode calls that have started.
Decodes == {i \in DOMAIN reqs : reqs[i].kind = "decode"}

RejectedBy(c, label) ==
    /\ c.pc = "done"
    /\ c.result = Err("CircuitOpen", label)
    /\ ~c.permit
    /\ c.attempt = 0

\* failure_threshold decode failures have been recorded with no success
\* since, and reset_timeout has not elapsed since the last of them.
DecodeTripped ==
    /\ decodeRun.fails >= breakerCfg.failure_threshold
    /\ now < decodeRun.at + breakerCfg.reset_timeout

\* C6: a decode request with at least one cache miss that observes
\* is_open("decode") = true fails with CircuitOpen("decode"), never holds a
\* semaphore permit and makes no upstream attempt; and a decode request that
\* reaches the breaker check after failure_threshold decode failures with no
\* success in between, before reset_timeout has elapsed since the last of
\* them, is rejected this way.
C6_OpenRejectsDecode ==
    /\ [](\A i \in Decodes :
            reqs[i].probed = "open" =>
               reqs[i].misses # <<>> /\ RejectedBy(reqs[i], "decode"))
    /\ [][\A i \in DOMAIN reqs :
            (DecCheck(i) /\ DecodeTripped) =>
               /\ reqs'[i].probed = "open"
               /\ RejectedBy(reqs'[i], "decode")
               /\ permits' = permits]_vars

\* C6 witness: a decode request with a cache miss was rejected with
\* CircuitOpen("decode") after failure_threshold = 2 failures, within
\* reset_timeout of the last one.
C6_Witness ==
    /\ breakerCfg.failure_threshold = 2
    /\ DecodeTripped
    /\ \E i \in Decodes :
          /\ reqs[i].probed = "open"
          /\ RejectedBy(reqs[i], "decode")
          /\ reqs[i].misses # <<>>

IdsOf(results) == {results[k].region_id : k \in 1..Len(results)}

\* C7: a decode request sends upstream exactly the ids that missed the cache,
\* none of which hit; the results it returns start with the cached results,
\* each as the cache held it when the request looked it up; and a request
\* whose ids all hit returns the hits with no breaker check, no breaker
\* change and no upstream attempt, whatever the state of the decode breaker.
C7_UpstreamOnlyForMisses ==
    /\ [](\A i \in Decodes :
            /\ reqs[i].attempt >= 1 =>
                  /\ reqs[i].sent = reqs[i].misses
                  /\ reqs[i].misses # <<>>
                  /\ Range(reqs[i].sent) \cap IdsOf(reqs[i].hits) = {}
            /\ (reqs[i].pc = "done" /\ reqs[i].result.tag = "Ok") =>
                  /\ Len(reqs[i].result.results) >= Len(reqs[i].hits)
                  /\ SubSeq(reqs[i].result.results, 1, Len(reqs[i].hits))
                        = reqs[i].hits
            /\ (reqs[i].misses = <<>> /\ reqs[i].pc \notin {"split"}
                  /\ clientCfg.enabled) =>
                  /\ reqs[i].pc = "done"
                  /\ reqs[i].result = Ok(reqs[i].hits)
                  /\ Len(reqs[i].hits) = Len(reqs[i].ids)
                  /\ reqs[i].probed = "unprobed"
                  /\ reqs[i].attempt = 0)
    /\ [][\A i \in DOMAIN reqs :
            DecSplitStep(i) =>
               /\ breakers' = breakers
               /\ Len(reqs'[i].hits) > Len(reqs[i].hits) =>
                     LET h == reqs'[i].hits[Len(reqs'[i].hits)]
                         key == Key(h.region_id, DecodeFidelity)
                     IN  /\ key \in DOMAIN cache
                         /\ h = cache[key].result]_vars

\* The part of C7 that the code keeps: all of it but that no id sent
\* upstream is the id of a hit.
C7_MissesSentHitsVerbatim ==
    /\ [](\A i \in Decodes :
            /\ reqs[i].attempt >= 1 =>
                  /\ reqs[i].sent = reqs[i].misses
                  /\ reqs[i].misses # <<>>
            /\ (reqs[i].pc = "done" /\ reqs[i].result.tag = "Ok") =>
                  /\ Len(reqs[i].result.results) >= Len(reqs[i].hits)
                  /\ SubSeq(reqs[i].result.results, 1, Len(reqs[i].hits))
                        = reqs[i].hits
            /\ (reqs[i].misses = <<>> /\ reqs[i].pc \notin {"split"}
                  /\ clientCfg.enabled) =>
                  /\ reqs[i].pc = "done"
                  /\ reqs[i].result = Ok(reqs[i].hits)
                  /\ Len(reqs[i].hits) = Len(reqs[i].ids)
                  /\ reqs[i].probed = "unprobed"
                  /\ reqs[i].attempt = 0)
    /\ [][\A i \in DOMAIN reqs :
            DecSplitStep(i) =>
               /\ breakers' = breakers
               /\ Len(reqs'[i].hits) > Len(reqs[i].hits) =>
                     LET h == reqs'[i].hits[Len(reqs'[i].hits)]
                         key == Key(h.region_id, DecodeFidelity)
                     IN  /\ key \in DOMAIN cache
                         /\ h = cache[key].result]_vars

\* retry_backoff * 2^(k-1).
ExpectedBackoff(base, k) == IF base = 0 THEN Duration(0, 0) ELSE Duration(base, k - 1)

\* C8: a decode request makes at most retry_attempts + 1 upstream attempts;
\* while it sleeps after its k-th failed attempt the sleep is
\* retry_backoff * 2^(k-1) long; once it has returned after an upstream
\* attempt it has returned either the hits followed by the results of its
\* successful attempt, or, with retry_attempts + 1 attempts made, the error
\* of its last attempt.
C8_RetryContract ==
    \A i \in Decodes :
       /\ reqs[i].attempt <= clientCfg.retry_attempts + 1
       /\ reqs[i].pc = "sleep" =>
             reqs[i].backoff = ExpectedBackoff(clientCfg.retry_backoff, reqs[i].attempt)
       /\ (reqs[i].pc = "done" /\ reqs[i].attempt >= 1) =>
             \/ /\ reqs[i].outcome = "ok"
                /\ reqs[i].result = Ok(reqs[i].hits \o reqs[i].reply)
             \/ /\ reqs[i].outcome \in ErrOutcomes
                /\ reqs[i].attempt = clientCfg.retry_attempts + 1
                /\ reqs[i].result = Err(error_of(reqs[i].outcome), "")

\* The calls whose last upstream attempt has ended.
Attempted == {i \in DOMAIN reqs : reqs[i].outcome # "none"}

\* C9: after every upstream attempt of decode_regions, index_document and
\* get_job_status, whatever its outcome, the breaker has been updated exactly
\* once.
C9_BreakerMarkedOncePerAttempt ==
    \A i \in Attempted : reqs[i].marks = 1

\* The part of C9 that the code keeps: decode_regions updates the breaker
\* once per attempt, and so does index_document unless the body of a 2xx
\* reply does not parse.
C9_MarkedOnceWhereMarked ==
    \A i \in Attempted :
       \/ reqs[i].marks = 1
       \/ reqs[i].kind = "status"
       \/ reqs[i].kind = "index" /\ reqs[i].outcome = "body"

\* The index_document and get_job_status calls that have started.
Jobs == {i \in DOMAIN reqs : reqs[i].kind \in {"index", "status"}}

\* C10: an index_document or get_job_status call sends its upstream request
\* only after is_open on its own label answered false, and a call that is
\* answered true is rejected with CircuitOpen(label) with no request sent.
C10_JobsProtectedByBreaker ==
    \A i \in Jobs :
       /\ reqs[i].attempt >= 1 => reqs[i].probed = "closed"
       /\ reqs[i].probed = "open" => RejectedBy(reqs[i], reqs[i].kind)

\* The part of C10 that the code keeps: index_document is protected.
C10_IndexProtected ==
    \A i \in Jobs :
       reqs[i].kind = "index" =>
          /\ reqs[i].attempt >= 1 => reqs[i].probed = "closed"
          /\ reqs[i].probed = "open" => RejectedBy(reqs[i], "index")

\* The cache keys store_batch writes for results.
KeysOf(results) == {Key(results[k].region_id, DecodeFidelity) : k \in 1..Len(results)}

Holders == {i \in DOMAIN reqs : reqs[i].permit}

\* C12: at every moment at most max_concurrent_decodes decode requests hold
\* a permit; the requests that hold one are exactly those with an upstream
\* attempt in flight or asleep between two attempts, so a request that has
\* returned, with a result or an error, holds none; and the permits held and
\* the permits available add up to max_concurrent_decodes.
C12_PermitsBounded ==
    /\ Cardinality(Holders) <= clientCfg.max_concurrent_decodes
    /\ permits + Cardinality(Holders) = clientCfg.max_concurrent_decodes
    /\ \A i \in DOMAIN reqs :
          reqs[i].permit <=> (reqs[i].kind = "decode" /\ reqs[i].pc \in {"await", "sleep"})

\* C12 witness: with the only permit held by a request asleep between two
\* attempts, another request has passed the breaker check and waits for a
\* permit.
C12_Witness ==
    /\ permits = 0
    /\ \E i, j \in DOMAIN reqs :
          /\ reqs[i].pc = "acquire"
          /\ reqs[j].pc = "sleep"
          /\ reqs[j].permit

\* C13: on a client with enabled = false every decode_regions,
\* index_document and get_job_status call returns Disabled and does nothing
\* else: it has looked up no region (no hit, no miss), asked the breaker
\* nothing, held no permit and started no upstream attempt, and the cache and
\* the breaker map are as DeepseekOcrClient::new left them, all permits
\* available.
C13_DisabledDoesNothing ==
    ~clientCfg.enabled =>
       /\ cache = <<>>
       /\ breakers = <<>>
       /\ permits = clientCfg.max_concurrent_decodes
       /\ \A i \in DOMAIN reqs :
             reqs[i].pc # "idle" =>
                reqs[i] = [IdleCall EXCEPT !.kind = reqs[i].kind, !.ids = reqs[i].ids,
                                           !.pc = "done",
                                           !.result = Err("Disabled", "")]

\* C13 witness: a get_job_status call on a disabled client has returned
\* Disabled.
C13_Witness ==
    /\ ~clientCfg.enabled
    /\ \E i \in DOMAIN reqs :
          /\ reqs[i].kind = "status"
          /\ reqs[i].pc = "done"
          /\ reqs[i].result = Err("Disabled", "")

\* C14: mark_success(op) on an entry in any state leaves it Closed with
\* failure_count = 0 and no opened_at; a circuit is out of Closed only with
\* failure_threshold failures counted, and each mark_failure counts for
\* one: so the failures that open a circuit have all come after the last
\* success.
C14_SuccessResets ==
    /\ [](brLast.op = "mark_success" =>
             BrPost = [state |-> "Closed", failure_count |-> 0, opened_at |-> NoInstant])
    /\ [](\A op \in DOMAIN breakers :
             breakers[op].state # "Closed" =>
                breakers[op].failure_count >= breakerCfg.failure_threshold)
    /\ [][\A op \in BreakerLabels :
             BrMarkFailure(op) =>
                breakers'[op].failure_count = EntryOrInsert(breakers, op).failure_count + 1]_vars

\* C14 witness: a mark_success on an Open entry that had counted more than
\* one failure left it Closed with none.
C14_Witness ==
    /\ brLast.op = "mark_success"
    /\ brLast.pre.state = "Open"
    /\ brLast.pre.failure_count > 1
    /\ BrPost.state = "Closed"
    /\ BrPost.failure_count = 0

\* C15: one mark_failure(op) on a HalfOpen entry leaves it Open with
\* opened_at the time of that call; and is_open on an Open entry returns
\* true exactly while less than reset_timeout has elapsed since opened_at.
C15_HalfOpenFailureReopens ==
    /\ []((brLast.op = "mark_failure" /\ brLast.pre.state = "HalfOpen") =>
             BrPost = [state |-> "Open",
                       failure_count |-> brLast.pre.failure_count + 1,
                       opened_at |-> Some(brLast.at)])
    /\ [][\A op \in BreakerLabels :
             (BrIsOpen(op) /\ EntryOrInsert(breakers, op).state = "Open") =>
                (brLast'.ret <=>
                    now < EntryOrInsert(breakers, op).opened_at[1]
                             + breakerCfg.reset_timeout)]_vars

\* C15 witness: a mark_failure on a HalfOpen entry, made later than the
\* entry had been opened the time before, left it Open as of the call.
C15_Witness ==
    /\ brLast.op = "mark_failure"
    /\ brLast.pre.state = "HalfOpen"
    /\ breakerCfg.reset_timeout > 0
    /\ brLast.pre.opened_at[1] < brLast.at
    /\ BrPost.state = "Open"
    /\ BrPost.opened_at = Some(brLast.at)

(***************************************************************************)
(*                        FACT STORE: the data                             *)
(*            src/src/facts/models.rs, src/src/facts/store.rs              *)
(***************************************************************************)

\* Option::None; Some(t) is <<t>>.
None == <<>>

\* SourceAnchor::new and with_doc.
SourceAnchorNew ==
    [doc_id |-> None, page |-> None, region_id |-> None, vt_ref |-> None,
     path_line |-> None]

with_doc(anchor, doc_id, page) ==
    [anchor EXCEPT !.doc_id = Some(doc_id), !.page = page]

Digits == <<"0", "1", "2", "3", "4", "5", "6", "7", "8", "9">>

\* u32::to_string: the decimal digits, most significant first.
RECURSIVE u32_to_string(_)
u32_to_string(n) ==
    IF n < 10 THEN Digits[n + 1]
    ELSE u32_to_string(n \div 10) \o Digits[(n % 10) + 1]

\* format!("{:x}", Sha256(bytes)).  SHA-256 is taken to be free of
\* collisions: a digest is written as the bytes it was computed from, so two
\* digests are equal exactly when the hashed bytes are.
Sha256Hex(bytes) == "sha256:" \o bytes

\* Fact::compute_hash: the fields are fed to the hasher one after the other,
\* a "|" after each of subject, predicate and object, nothing between or
\* after the anchor's doc_id, page and region_id; vt_ref and path_line are
\* not hashed.
compute_hash(subject, predicate, object, source_anchor) ==
    Sha256Hex(subject \o "|" \o predicate \o "|" \o object \o "|"
              \o (IF source_anchor.doc_id # None
                  THEN source_anchor.doc_id[1] ELSE "")
              \o (IF source_anchor.page # None
                  THEN u32_to_string(source_anchor.page[1]) ELSE "")
              \o (IF source_anchor.region_id # None
                  THEN source_anchor.region_id[1] ELSE ""))

\* A confidence (f32) is counted in hundredths.
clamp(x, lo, hi) == IF x < lo THEN lo ELSE IF x > hi THEN hi ELSE x

\* Uuid::new_v4().to_string() for the n-th value drawn: the values drawn are
\* distinct.
Uuid(n) == "uuid-" \o u32_to_string(n)

\* Fact::new with a hash that also covers the fact's id.
FactNewHashingId(subject, predicate, object, source_anchor, confidence, id, at) ==
    [id |-> id, subject |-> subject, predicate |-> predicate,
     object |-> object, datatype |-> None,
     source_doc |-> source_anchor.doc_id, source_anchor |-> source_anchor,
     confidence |-> clamp(confidence, 0, 100), observed_at |-> at,
     hash |-> Sha256Hex(id \o "|" \o subject \o "|" \o predicate \o "|" \o object)]

\* Fact::new, given the uuid drawn and the time read.
FactNew(subject, predicate, object, source_anchor, confidence, id, at) ==
    [id |-> id, subject |-> subject, predicate |-> predicate,
     object |-> object, datatype |-> None,
     source_doc |-> source_anchor.doc_id, source_anchor |-> source_anchor,
     confidence |-> clamp(confidence, 0, 100), observed_at |-> at,
     hash |-> compute_hash(subject, predicate, object, source_anchor)]

\* Fact::meets_threshold.
meets_threshold(fact, threshold) == fact.confidence >= threshold

\* PointId::from(String) and its to_string.
PointIdFrom(id) == [uuid |-> id]
PointIdToString(point_id) == point_id.uuid

\* The point insert_fact builds for a fact: PointStruct::new(fact.id, vector,
\* payload).  The vector is all zeros and is left out.
PointOf(fact) ==
    [id |-> PointIdFrom(fact.id),
     payload |-> [subject |-> fact.subject, predicate |-> fact.predicate,
                  object |-> fact.object, confidence |-> fact.confidence,
                  hash |-> fact.hash, observed_at |-> fact.observed_at,
                  source_doc |-> fact.source_doc]]

(***************************************************************************)
(*                     FACT STORE: the operations                          *)
(*                       src/src/facts/store.rs                            *)
(*                                                                         *)
(* insert_fact awaits the database twice: the scroll of check_duplicate    *)
(* and the upsert.  Each await ends a step, so calls of several callers    *)
(* interleave between them.  The upsert is QdrantClient::upsert_points,    *)
(* the call that does not wait for the write to be applied (the waiting    *)
(* one is upsert_points_blocking): the database acknowledges the point,    *)
(* and a scroll or search finds it once the database has applied it.       *)
(***************************************************************************)

\* The uuids drawn, the result size and the requests explored.
MaxUuids == 2
MaxFactsPerQuery == 2

AnchorDocPage == with_doc(SourceAnchorNew, "d", Some(1))
AnchorDocOnly == with_doc(SourceAnchorNew, "d1", None)

FactInsertRequest(subject, object, source_anchor, confidence) ==
    [subject |-> subject, predicate |-> "p", object |-> object,
     datatype |-> None, source_doc |-> None,
     source_anchor |-> source_anchor, confidence |-> confidence]

\* The first two differ in confidence only; the third hashes the same bytes
\* as the first ("d" then "1" against "d1") for another anchor.
FactRequests ==
    {FactInsertRequest("A", "o", AnchorDocPage, 90),
     FactInsertRequest("A", "o", AnchorDocPage, 50),
     FactInsertRequest("A", "o", AnchorDocOnly, 120),
     FactInsertRequest("B", "x", SourceAnchorNew, 85)}

FactConfigs ==
    [dedup_enabled : BOOLEAN, confidence_threshold : {80},
     max_facts_per_query : {1, MaxFactsPerQuery}]

\* No insert_fact call has been made by this caller.
IdleInsert ==
    [pc |-> "idle", req |-> None, fact |-> None, result |-> NoResult,
     wrote |-> FALSE, prev |-> None]

FactInsertResponse(fact_id, hash, duplicate) ==
    [fact_id |-> fact_id, hash |-> hash, duplicate |-> duplicate]

\* The points of the collection whose payload field hash is the keyword.
WithHash(hash) == {p \in points : p.payload.hash = hash}

\* check_duplicate, given that the scroll succeeded: the values it can
\* return.  The scroll asks for one point; which of several matching points
\* the database returns is its choice.
check_duplicate(hash) ==
    IF WithHash(hash) = {} THEN {None}
    ELSE {Some(PointIdToString(p.id)) : p \in WithHash(hash)}

\* insert_fact going from the duplicate check to the upsert request without
\* a confidence test.
AfterDuplicateCheckUntested(call) == [call EXCEPT !.pc = "upsert"]

\* insert_fact from the confidence test to the upsert request.
AfterDuplicateCheck(call) ==
    IF ~meets_threshold(call.fact[1], factCfg.confidence_threshold)
    THEN [call EXCEPT !.pc = "done",
                      !.result = Err("Internal", "confidence below threshold")]
    ELSE [call EXCEPT !.pc = "upsert"]

\* insert_fact up to its first await.
InsertFact(c, request) ==
    /\ inserts[c].pc \in {"idle", "done"}
    /\ uuids < MaxUuids
    /\ LET fact == FactNew(request.subject, request.predicate, request.object,
                           request.source_anchor, request.confidence,
                           Uuid(uuids + 1), now)
           prev == IF inserts[c].pc = "done"
                   THEN Some([req |-> inserts[c].req[1],
                              fact |-> inserts[c].fact[1],
                              result |-> inserts[c].result])
                   ELSE None
           call == [pc |-> "check_duplicate", req |-> Some(request),
                    fact |-> Some(fact), result |-> NoResult,
                    wrote |-> FALSE, prev |-> prev]
       IN  inserts' = [inserts EXCEPT ![c] =
                IF factCfg.dedup_enabled THEN call
                ELSE AfterDuplicateCheck(call)]
    /\ uuids' = uuids + 1
    /\ UNCHANGED <<factCfg, points, acked, fqLast, now,
                   ctxVars, brVars, caVars, clVars, adVars>>

\* The scroll of check_duplicate returns; insert_fact goes on to its return
\* or to the upsert request.
CheckDuplicateReply(c) ==
    /\ inserts[c].pc = "check_duplicate"
    /\ \E existing \in check_duplicate(inserts[c].fact[1].hash) :
          inserts' = [inserts EXCEPT ![c] =
              IF existing # None
              THEN [@ EXCEPT !.pc = "done",
                             !.result = Ok(FactInsertResponse(
                                 existing[1], inserts[c].fact[1].hash, TRUE))]
              ELSE AfterDuplicateCheck(@)]
    /\ UNCHANGED <<factCfg, points, acked, fqLast, uuids, now,
                   ctxVars, brVars, caVars, clVars, adVars>>

\* The scroll of check_duplicate fails.
CheckDuplicateFails(c) ==
    /\ inserts[c].pc = "check_duplicate"
    /\ inserts' = [inserts EXCEPT ![c] =
          [@ EXCEPT !.pc = "done",
                    !.result = Err("Internal", "Failed to check for duplicate")]]
    /\ UNCHANGED <<factCfg, points, acked, fqLast, uuids, now,
                   ctxVars, brVars, caVars, clVars, adVars>>

\* The upsert is acknowledged; insert_fact returns.
UpsertReply(c) ==
    /\ inserts[c].pc = "upsert"
    /\ acked' = acked \cup {PointOf(inserts[c].fact[1])}
    /\ inserts' = [inserts EXCEPT ![c] =
          [@ EXCEPT !.pc = "done", !.wrote = TRUE,
                    !.result = Ok(FactInsertResponse(
                        inserts[c].fact[1].id, inserts[c].fact[1].hash,
                        FALSE))]]
    /\ UNCHANGED <<factCfg, points, fqLast, uuids, now,
                   ctxVars, brVars, caVars, clVars, adVars>>

\* The upsert fails.
UpsertFails(c) ==
    /\ inserts[c].pc = "upsert"
    /\ inserts' = [inserts EXCEPT ![c] =
          [@ EXCEPT !.pc = "done",
                    !.result = Err("Internal", "Failed to insert fact")]]
    /\ UNCHANGED <<factCfg, points, acked, fqLast, uuids, now,
                   ctxVars, brVars, caVars, clVars, adVars>>

\* The database applies an acknowledged upsert: the point replaces any point
\* with its id.
DbApply ==
    \E p \in acked :
        /\ points' = {q \in points : q.id # p.id} \cup {p}
        /\ acked' = acked \ {p}
        /\ UNCHANGED <<factCfg, inserts, fqLast, uuids, now,
                       ctxVars, brVars, caVars, clVars, adVars>>

FaTick == Tick /\ UNCHANGED <<faVars, ctxVars, brVars, caVars, clVars, adVars>>

FactStoreNew(callers) ==
    /\ factCfg \in FactConfigs
    /\ points = {}
    /\ acked = {}
    /\ inserts = [c \in callers |-> IdleInsert]
    /\ fqLast = NoCall
    /\ uuids = 0
    /\ ClockIdle
    /\ CtxParked
    /\ BreakerParked
    /\ CacheParked
    /\ ClientParked
    /\ AutodevParked

\* Concurrent insert_fact calls.
InitFacts == FactStoreNew(Callers)

NextFacts ==
    \/ \E c \in Callers, request \in FactRequests : InsertFact(c, request)
    \/ \E c \in Callers : CheckDuplicateReply(c)
    \/ \E c \in Callers : CheckDuplicateFails(c)
    \/ \E c \in Callers : UpsertReply(c)
    \/ \E c \in Callers : UpsertFails(c)
    \/ DbApply

SpecFacts == InitFacts /\ [][NextFacts]_vars

\* The queries explored.  query.limit is a usize.
FactQuery(subject, predicate, object, source_doc, min_confidence, limit) ==
    [subject |-> subject, predicate |-> predicate, object |-> object,
     source_doc |-> source_doc, min_confidence |-> min_confidence,
     limit |-> limit]

FactQueries ==
    {FactQuery(None, None, None, None, None, MaxFactsPerQuery + 1),
     FactQuery(Some("A"), None, None, None, None, 1),
     FactQuery(Some("A"), None, Some("x"), None, None, MaxFactsPerQuery),
     FactQuery(None, Some("p"), None, None, None, 0),
     FactQuery(None, None, None, Some("d"), None, MaxFactsPerQuery),
     FactQuery(None, None, None, None, Some(90), MaxFactsPerQuery),
     FactQuery(Some("A"), Some("p"), Some("o"), Some("d"), Some(90),
               MaxFactsPerQuery + 1)}

\* The filter query_facts builds: a condition for each of subject, predicate
\* and object that the query carries, none for source_doc or min_confidence.
MatchesFilter(p, query) ==
    /\ query.subject # None => p.payload.subject = query.subject[1]
    /\ query.predicate # None => p.payload.predicate = query.predicate[1]
    /\ query.object # None => p.payload.object = query.object[1]

\* search_points with a filter and a limit, when it succeeds: the results it
\* can return.  Every vector is the zero vector, so which of the matching
\* points fill the limit is the database's choice.
SearchPoints(query, limit) ==
    LET matching == {p \in points : MatchesFilter(p, query)}
    IN  {hits \in SUBSET matching :
            Cardinality(hits) = Min(limit, Cardinality(matching))}

\* The Fact query_facts builds from a hit.  The points insert_fact writes
\* carry every payload field, so no hit is dropped here.
FactOfPoint(p) ==
    [id |-> PointIdToString(p.id), subject |-> p.payload.subject,
     predicate |-> p.payload.predicate, object |-> p.payload.object,
     datatype |-> None, source_doc |-> p.payload.source_doc,
     source_anchor |-> SourceAnchorNew, confidence |-> p.payload.confidence,
     observed_at |-> p.payload.observed_at, hash |-> p.payload.hash]

FactQueryResponse(facts) == [facts |-> facts, total |-> Cardinality(facts)]

\* query_facts, the search succeeding.  The facts returned are kept as a
\* set: their order in the response is the database's.
QueryFacts(query) ==
    /\ \E hits \in SearchPoints(query,
                       Min(query.limit, factCfg.max_facts_per_query)) :
          fqLast' = [op |-> "query_facts", query |-> query,
                     ret |-> Ok(FactQueryResponse(
                                {FactOfPoint(p) : p \in hits}))]
    /\ UNCHANGED <<factCfg, points, acked, inserts, uuids, now,
                   ctxVars, brVars, caVars, clVars, adVars>>

\* query_facts, the search failing.
QueryFails(query) ==
    /\ fqLast' = [op |-> "query_facts", query |-> query,
                  ret |-> Err("Internal", "Failed to query facts")]
    /\ UNCHANGED <<factCfg, points, acked, inserts, uuids, now,
                   ctxVars, brVars, caVars, clVars, adVars>>

\* One caller: its insert_fact calls follow one another.
InitFactsSeq == FactStoreNew(Solo)

NextFactsSeq ==
    \/ \E request \in FactRequests : InsertFact("a", request)
    \/ CheckDuplicateReply("a")
    \/ CheckDuplicateFails("a")
    \/ UpsertReply("a")
    \/ UpsertFails("a")
    \/ DbApply
    \/ FaTick

SpecFactsSeq == InitFactsSeq /\ [][NextFactsSeq]_vars

\* One caller that inserts and queries.
InitQuery == FactStoreNew(Solo)

NextQuery ==
    \/ \E request \in FactRequests : InsertFact("a", request)
    \/ CheckDuplicateReply("a")
    \/ CheckDuplicateFails("a")
    \/ UpsertReply("a")
    \/ UpsertFails("a")
    \/ DbApply
    \/ \E query \in FactQueries : QueryFacts(query)
    \/ \E query \in FactQueries : QueryFails(query)

SpecQuery == InitQuery /\ [][NextQuery]_vars

(***************************************************************************)
(*                      FACT STORE: the properties                         *)
(***************************************************************************)

\* Two requests with the same subject, predicate, object and source anchor.
SameContent(r1, r2) ==
    /\ r1.subject = r2.subject
    /\ r1.predicate = r2.predicate
    /\ r1.object = r2.object
    /\ r1.source_anchor = r2.source_anchor

\* The caller's call has returned, it followed a call of the same caller
\* that returned a response, and both carried the same content.
SecondOfPair(c) ==
    /\ inserts[c].pc = "done"
    /\ inserts[c].prev # None
    /\ inserts[c].prev[1].result.tag = "Ok"
    /\ SameContent(inserts[c].prev[1].req, inserts[c].req[1])

\* C16: with dedup enabled, when an insert_fact call follows one that
\* returned a response for the same (subject, predicate, object,
\* source_anchor), the second call writes no point and, unless its duplicate
\* scroll failed, returns duplicate = true with the fact_id the first call
\* returned.
C16_SecondIsDuplicate ==
    \A c \in DOMAIN inserts :
        (factCfg.dedup_enabled /\ SecondOfPair(c)) =>
            /\ ~inserts[c].wrote
            /\ inserts[c].result.label # "Failed to check for duplicate" =>
                  /\ inserts[c].result.tag = "Ok"
                  /\ inserts[c].result.results.duplicate
                  /\ inserts[c].result.results.fact_id =
                        inserts[c].prev[1].result.results.fact_id

\* C17: with dedup enabled, whatever the interleaving of the insert_fact
\* calls, the collection never holds two points with the same hash.
C17_NoTwoPointsSameHash ==
    factCfg.dedup_enabled =>
        \A p, q \in points : p.payload.hash = q.payload.hash => p = q

\* A fact satisfies every field the query carries.
Satisfies(fact, query) ==
    /\ query.subject # None => fact.subject = query.subject[1]
    /\ query.predicate # None => fact.predicate = query.predicate[1]
    /\ query.object # None => fact.object = query.object[1]
    /\ query.source_doc # None => fact.source_doc = query.source_doc
    /\ query.min_confidence # None => fact.confidence >= query.min_confidence[1]

\* query_facts returned a response.
QueryReturned == fqLast.op = "query_facts" /\ fqLast.ret.tag = "Ok"

\* C18: query_facts returns only facts that satisfy every field present in
\* the query among subject, predicate, object, source_doc and
\* min_confidence, and at most min(limit, max_facts_per_query) of them.
C18_QueryFiltersAndLimits ==
    QueryReturned =>
        /\ \A fact \in fqLast.ret.results.facts : Satisfies(fact, fqLast.query)
        /\ fqLast.ret.results.total
              <= Min(fqLast.query.limit, factCfg.max_facts_per_query)

\* What query_facts does ensure: the facts returned match the subject,
\* predicate and object the query carries, and the limit is kept.
C18_TripleAndLimit ==
    QueryReturned =>
        /\ \A fact \in fqLast.ret.results.facts :
              /\ fqLast.query.subject # None =>
                    fact.subject = fqLast.query.subject[1]
              /\ fqLast.query.predicate # None =>
                    fact.predicate = fqLast.query.predicate[1]
              /\ fqLast.query.object # None =>
                    fact.object = fqLast.query.object[1]
        /\ fqLast.ret.results.total = Cardinality(fqLast.ret.results.facts)
        /\ fqLast.ret.results.total
              <= Min(fqLast.query.limit, factCfg.max_facts_per_query)

\* The facts that the callers' current and previous insert_fact calls built.
FactsBuilt ==
    UNION {{inserts[c].fact[1] : x \in {1} \cap DOMAIN inserts[c].fact}
           \cup {inserts[c].prev[1].fact : x \in {1} \cap DOMAIN inserts[c].prev}
           : c \in DOMAIN inserts}

\* C19: the hash of a fact is a function of its subject, predicate, object
\* and source anchor only: facts that agree on these have the same hash,
\* whatever their id, observed_at and confidence, and the hash is the one
\* compute_hash gives for these four.
C19_HashOfContentOnly ==
    /\ \A f, g \in FactsBuilt : SameContent(f, g) => f.hash = g.hash
    /\ \A f \in FactsBuilt :
          f.hash = compute_hash(f.subject, f.predicate, f.object,
                                f.source_anchor)

\* Two facts built for the same content at different times, with different
\* ids and confidences, carry the same hash.
C19_Witness ==
    \E f, g \in FactsBuilt :
        /\ SameContent(f, g)
        /\ f.id # g.id
        /\ f.observed_at # g.observed_at
        /\ f.confidence # g.confidence
        /\ f.hash = g.hash

\* The recent turns that summarize_and_retry keeps of turns.
LastTurn(turns) == IF turns = <<>> THEN <<>> ELSE <<turns[Len(turns)]>>

\* C30: on the summarize-then-retry path the Summarizer is invoked with the
\* current brief followed by all recent turns but the last, and with the
\* running_brief budget as target; the context returned keeps exactly the
\* last turn (none when there are no turns).
C30_SummarizesAllButLast ==
    /\ \A k \in 1..Len(ctxCall) :
          /\ ctxCall[k].texts =
                <<ctxIn.running_brief>>
                    \o SubSeq(ctxIn.recent_turns, 1,
                              Len(ctxIn.recent_turns) - 1)
          /\ ctxCall[k].target = budget.running_brief
    /\ (CtxSucceeded /\ ctxOut.path = "retry") =>
          ctxOut.recent_turns = LastTurn(ctxIn.recent_turns)

\* What summarize_turns does: the Summarizer is given the brief and every
\* recent turn, the last one included, which is also kept as a recent turn.
C30_SummarizesAllTurns ==
    /\ \A k \in 1..Len(ctxCall) :
          /\ ctxCall[k].texts = <<ctxIn.running_brief>> \o ctxIn.recent_turns
          /\ ctxCall[k].target = budget.running_brief
    /\ (CtxSucceeded /\ ctxOut.path = "retry") =>
          ctxOut.recent_turns = LastTurn(ctxIn.recent_turns)

\* The total that build_context computes on its first pass.
FirstPassTotal ==
    estimate_tokens(ctxIn.system_prompt) + estimate_tokens(ctxIn.running_brief)
        + TokensOfTurns(ctxIn.recent_turns) + TokensOfArtifacts(ctxSelected)
        + budget.completion

\* build_context has returned an error from the summarize-then-retry path
\* that is not the Summarizer's.
RetryRefused ==
    /\ ctxPc = "done"
    /\ FirstPassTotal > budget.max_total
    /\ ~ctxOut.ok
    /\ ~(ctxOut.err = "Configuration" /\ ctxOut.msg = SummarizerError)

\* The Summarizer is invoked at most once, and a context returned from the
\* retry path is within max_total.
OneAttempt ==
    /\ Len(ctxCall) <= 1
    /\ (CtxSucceeded /\ ctxOut.path = "retry") =>
          ContentTokens(ctxOut) <= budget.max_total

\* C31: summarization is attempted at most once per assembly, and when the
\* total re-estimated after it is still over max_total, build_context
\* returns no context but the error BudgetExceeded.
C31_RetryFailsBudgetExceeded ==
    /\ OneAttempt
    /\ RetryRefused => ctxOut.err = "BudgetExceeded"

\* C31 as amended: summarization is attempted at most once per assembly,
\* and when the total re-estimated after it is still over max_total,
\* build_context returns no context but a Configuration error ("Cannot fit
\* context within budget even after summarization").
C31_RetryFailsConfiguration ==
    /\ OneAttempt
    /\ RetryRefused => (ctxOut.err = "Configuration" /\ ctxOut.msg = CannotFit)

\* The Summarizer was invoked, returned a summary, and the context was
\* refused as still over budget.
C31_Witness ==
    /\ RetryRefused
    /\ Len(ctxCall) = 1
    /\ ctxOut.msg = CannotFit

(***************************************************************************)
(*                         ARTIFACT SELECTION                              *)
(*  prioritize_artifacts and shrink_artifacts on lists long enough for the *)
(*  snippet limit of 8 to 12 and the two-thirds rule to take effect, with  *)
(*  budgets of the size of the defaults.                                   *)
(***************************************************************************)

MaxListed == 13

\* TokenBudgetConfig::default, with retrieved_context varied over the
\* values validate accepts.
ArtifactBudgets ==
    {cfg \in [system_tokens : {700}, running_brief : {1200},
              recent_turns : {450},
              retrieved_context : {0, 2599, 2600, 2925, 3750, 3899, 3900, 4650},
              completion : {1000}, max_total : {8000}] : validate(cfg)}

\* Lists of n artifacts whose priorities and relevances cycle: the k-th has
\* priority 1 + (a*k + b) mod 4 and relevance (c*k) mod 3; its id is its
\* position in the list.
ListedArtifacts(n, a, b, c) ==
    [k \in 1..n |-> [id |-> k,
                     priority |-> 1 + ((a * k + b) % 4),
                     relevance |-> (c * k) % 3,
                     token_count |-> 1]]

ArtifactLists ==
    {ListedArtifacts(n, a, b, c) :
        n \in 0..MaxListed, a \in {0, 1, 3}, b \in {0, 1}, c \in {0, 1, 2}}

PrioritizeArtifacts ==
    /\ ctxPc = "idle"
    /\ ctxSelected' = prioritize_artifacts(budget, ctxIn.artifacts)
    /\ ctxPc' = "prioritized"
    /\ UNCHANGED <<llm, budget, ctxIn, ctxCall, ctxOut, now, brVars, caVars, clVars,
                   faVars, adVars>>

ShrinkArtifacts ==
    /\ ctxPc = "prioritized"
    /\ ctxOut' = shrink_artifacts(ctxSelected)
    /\ ctxPc' = "shrunk"
    /\ UNCHANGED <<llm, budget, ctxIn, ctxSelected, ctxCall, now, brVars, caVars,
                   clVars, faVars, adVars>>

InitArtifacts ==
    /\ budget \in ArtifactBudgets
    /\ ctxIn \in [system_prompt : {0}, running_brief : {0},
                  recent_turns : {<<>>}, artifacts : ArtifactLists]
    /\ CtxIdle
    /\ ClockIdle
    /\ BreakerParked
    /\ CacheParked
    /\ ClientParked
    /\ FactsParked
    /\ AutodevParked

NextArtifacts ==
    \/ PrioritizeArtifacts
    \/ ShrinkArtifacts

SpecArtifacts == InitArtifacts /\ [][NextArtifacts]_vars

\* x comes before y in the order of the claim: higher priority first, then
\* higher relevance, then earlier in the input.
Precedes(x, y) ==
    \/ x.priority > y.priority
    \/ x.priority = y.priority /\ x.relevance > y.relevance
    \/ x.priority = y.priority /\ x.relevance = y.relevance /\ x.id < y.id

\* clamp(floor(retrieved_context / 325), 8, 12)
SnippetLimit ==
    LET q == CHOOSE k \in 0..budget.retrieved_context :
                 325 * k <= budget.retrieved_context
                 /\ budget.retrieved_context < 325 * (k + 1)
    IN  IF q < 8 THEN 8 ELSE IF q > 12 THEN 12 ELSE q

\* C28: prioritize_artifacts returns the first clamp(floor(
\* retrieved_context / 325), 8, 12) artifacts of its input in the order:
\* priority descending, then relevance.total descending, then input order.
C28_PrioritizedOrder ==
    ctxPc \in {"prioritized", "shrunk"} =>
        LET in == ctxIn.artifacts
            out == ctxSelected
        IN  /\ Len(out) = Min(Len(in), SnippetLimit)
            /\ \A i \in 1..Len(out) : in[out[i].id] = out[i]
            /\ \A i, j \in 1..Len(out) : i < j => Precedes(out[i], out[j])
            /\ \A k \in 1..Len(in) :
                  (\A i \in 1..Len(out) : out[i].id # k) =>
                      \A i \in 1..Len(out) : Precedes(out[i], in[k])

\* Of ten or more artifacts nine are returned, in an order that differs
\* from the input's and has ties kept in input order.
C28_Witness ==
    /\ ctxPc = "prioritized"
    /\ Len(ctxSelected) = 9
    /\ Len(ctxIn.artifacts) > 9
    /\ \E i \in 1..8 : ctxSelected[i].id > ctxSelected[i + 1].id
    /\ \E i \in 1..8 :
          /\ ctxSelected[i].priority = ctxSelected[i + 1].priority
          /\ ctxSelected[i].relevance = ctxSelected[i + 1].relevance

\* The artifacts that shrink_artifacts returns are the first of its input.
KeepsFirst ==
    ctxOut = SubSeq(ctxSelected, 1, Len(ctxOut))

\* C29: n prioritized artifacts are shrunk to max(4, ceil(2n/3)), or n if
\* that is more, and the ones kept are the first of the prioritized list.
C29_ShrinkCeil ==
    ctxPc = "shrunk" =>
        LET n == Len(ctxSelected)
        IN  /\ KeepsFirst
            /\ Len(ctxOut) = Min(n, Max(4, (2 * n + 2) \div 3))

\* C29 as amended: n prioritized artifacts are shrunk to
\* max(4, floor(2n/3)), or n if that is more, and the ones kept are the
\* first of the prioritized list.
C29_ShrinkFloor ==
    ctxPc = "shrunk" =>
        LET n == Len(ctxSelected)
            m == Len(ctxOut)
        IN  /\ KeepsFirst
            /\ IF n <= 4 THEN m = n
               ELSE IF 2 * n < 15 THEN m = 4
               ELSE 3 * m <= 2 * n /\ 2 * n < 3 * (m + 1)

\* Eleven artifacts were shrunk to seven, the floor of 22/3.
C29_Witness ==
    /\ ctxPc = "shrunk"
    /\ Len(ctxSelected) = 11
    /\ Len(ctxOut) = 7

(***************************************************************************)
(*                             LOCAL POLICY                                *)
(*                  src/src/autodev/tools/policy.rs                        *)
(*                                                                         *)
(* A file name is the sequence of its characters.                          *)
(***************************************************************************)

MaxFiles == 2
MaxWarnings == 1

RiskTiers == {"low", "medium", "high"}

SqlSuffix == <<".", "s", "q", "l">>

FileNames ==
    { <<"a", ".", "s", "q", "l">>,
      <<".", "s", "q", "l">>,
      <<"s", "q", "l">>,
      <<"a", ".", "r", "s">>,
      <<"a", ".", "s", "q", "l", "x">>,
      <<"a", ".", "S", "Q", "L">> }

\* schemas.rs PolicyInput, without task_id and diff, which no rule reads.
PolicyInputs ==
    [risk_tier : RiskTiers,
     files_changed : SeqsUpTo(FileNames, MaxFiles),
     new_dependencies : {<<>>, <<"serde">>},
     clippy_warnings : 0..MaxWarnings,
     tests_passed : BOOLEAN,
     secrets_found : BOOLEAN]

starts_with(s, prefix) ==
    /\ Len(s) >= Len(prefix)
    /\ SubSeq(s, 1, Len(prefix)) = prefix

\* str::ends_with.
ends_with(s, suffix) ==
    /\ Len(s) >= Len(suffix)
    /\ SubSeq(s, Len(s) - Len(suffix) + 1, Len(s)) = suffix

\* [String]::join.
RECURSIVE join(_, _)
join(strs, sep) ==
    IF strs = <<>> THEN ""
    ELSE IF Len(strs) = 1 THEN strs[1]
    ELSE strs[1] \o sep \o join(Tail(strs), sep)

\* LocalPolicyTool::check_local_policy.
check_local_policy(input) ==
    LET high == IF input.risk_tier = "high"
                THEN <<"High-risk changes require human review">> ELSE <<>>
        secrets == IF input.secrets_found
                   THEN <<"Secrets detected in changes">> ELSE <<>>
        tests == IF ~input.tests_passed
                 THEN <<"Tests must pass before merge">> ELSE <<>>
        clippy == IF input.clippy_warnings > 0
                  THEN <<u32_to_string(input.clippy_warnings)
                           \o " clippy warnings found">>
                  ELSE <<>>
        deps == IF input.new_dependencies # <<>>
                THEN <<"New dependencies added: "
                         \o join(input.new_dependencies, ", ")>>
                ELSE <<>>
        sql == IF \E k \in 1..Len(input.files_changed) :
                      ends_with(input.files_changed[k], SqlSuffix)
               THEN <<"Database schema changes require DBA approval">>
               ELSE <<>>
        deny_reasons == high \o secrets \o tests \o sql
    IN  [allow |-> deny_reasons = <<>>,
         deny_reasons |-> deny_reasons,
         warnings |-> clippy \o deps]

\* LocalPolicyTool::invoke on a well-formed PolicyInput.
LocalPolicyInvoke(input) ==
    LET decision == check_local_policy(input)
    IN  IF ~decision.allow
        THEN Err("Policy", join(decision.deny_reasons, "; "))
        ELSE Ok(decision)

\* The tool is invoked on policyCall.input and returns.
LocalPolicyToolInvoke ==
    /\ policyCall.pc = "idle"
    /\ policyCall' = [policyCall EXCEPT
                         !.pc = "done",
                         !.ret = LocalPolicyInvoke(policyCall.input)]
    /\ UNCHANGED <<autodevCfg, task, run, apiVars, now, ctxVars, brVars,
                   caVars, clVars, faVars>>

InitPolicy ==
    /\ policyCall \in [pc : {"idle"}, input : PolicyInputs, ret : {NoResult}]
    /\ autodevCfg = <<>>
    /\ task = <<>>
    /\ run = <<>>
    /\ ApiParked
    /\ ClockIdle
    /\ CtxParked
    /\ BreakerParked
    /\ CacheParked
    /\ ClientParked
    /\ FactsParked

NextPolicy == LocalPolicyToolInvoke

SpecPolicy == InitPolicy /\ [][NextPolicy]_vars

\* The file name is some text followed by ".sql".
IsSqlFile(f) == \E n \in 0..Len(f) : f = SubSeq(f, 1, n) \o SqlSuffix

\* C23: policy_local denies exactly when the risk tier is high, the tests
\* did not pass, secrets were found or a changed file's name ends in
\* ".sql"; clippy warnings and new dependencies add one warning each to an
\* allowing decision and never deny.
C23_LocalPolicyRules ==
    policyCall.pc = "done" =>
        LET input == policyCall.input
            deny == \/ input.risk_tier = "high"
                    \/ ~input.tests_passed
                    \/ input.secrets_found
                    \/ \E k \in 1..Len(input.files_changed) :
                          IsSqlFile(input.files_changed[k])
        IN  /\ deny <=> policyCall.ret.tag = "Policy"
            /\ ~deny =>
                  /\ policyCall.ret.tag = "Ok"
                  /\ policyCall.ret.results.allow
                  /\ policyCall.ret.results.deny_reasons = <<>>
                  /\ Len(policyCall.ret.results.warnings) =
                        (IF input.clippy_warnings > 0 THEN 1 ELSE 0)
                        + (IF input.new_dependencies # <<>> THEN 1 ELSE 0)

\* A low-risk change with passing tests, no secrets, clippy warnings and a
\* new dependency is denied, for the .sql file among its changed files.
C23_Witness ==
    /\ policyCall.pc = "done"
    /\ policyCall.input.risk_tier = "low"
    /\ policyCall.input.tests_passed
    /\ ~policyCall.input.secrets_found
    /\ policyCall.input.clippy_warnings > 0
    /\ policyCall.input.new_dependencies # <<>>
    /\ policyCall.input.files_changed
          = << <<"a", ".", "r", "s">>, <<"a", ".", "s", "q", "l">> >>
    /\ policyCall.ret.tag = "Policy"

(***************************************************************************)
(*                          TASK ORCHESTRATOR                              *)
(*                   src/src/autodev/orchestrator.rs                       *)
(*                                                                         *)
(* One run_task call.  A tool invocation returns Ok or Err (a tool that is  *)
(* not registered makes execute_step return Err); of a tool's output the   *)
(* model keeps the fields that build_policy_input reads.                   *)
(***************************************************************************)

MaxStepRetries == 9

\* config.rs default_max_parallel.
DefaultMaxParallel == 4

AutodevConfigs ==
    [max_step_retries : 0..MaxStepRetries, opa_url : {None, Some("opa")},
     max_parallel_tasks : {DefaultMaxParallel}]

Step(name, tool) == [name |-> name, tool |-> tool]

\* generate_heuristic_plan: the steps, in order.
generate_heuristic_plan ==
    <<Step("Search repository", "repo_search"),
      Step("Generate code changes", "codegen"),
      Step("Apply changes", "git_apply"),
      Step("Build project", "build"),
      Step("Run tests", "test"),
      Step("Run clippy", "clippy"),
      Step("Scan for secrets", "secrets_scan"),
      Step("Check policy",
           IF autodevCfg.opa_url # None THEN "policy" ELSE "policy_local"),
      Step("Create pull request", "git_pr")>>

\* run_task has not been called.  outputs holds the names under which
\* step_outputs has an entry, clippy_warnings and secrets_found what
\* build_policy_input reads from the entries of "Run clippy" and "Scan for
\* secrets" (0 and false while there is none); workspace tells whether the
\* task's workspace directory exists.
IdleRun ==
    [pc |-> "idle", i |-> 0, invoked |-> <<>>, outputs |-> {},
     clippy_warnings |-> 0, secrets_found |-> FALSE, workspace |-> FALSE,
     ret |-> NoResult]

\* What `git diff --name-only HEAD` lists when the policy input is built
\* (nothing when the command fails).
ChangedFiles ==
    {<<>>, << <<"a", ".", "r", "s">> >>, << <<"a", ".", "s", "q", "l">> >>}

\* build_policy_input, given the files that git lists: the risk tier is
\* always "low", the plan has no "Check dependencies" step, and the test
\* tool returns an output only with exit code 0.
build_policy_input(files) ==
    [risk_tier |-> "low",
     files_changed |-> files,
     new_dependencies |-> <<>>,
     clippy_warnings |-> run.clippy_warnings,
     tests_passed |-> "Run tests" \in run.outputs,
     secrets_found |-> run.secrets_found]

\* The result of a tool invocation: Ok with an output, or Err with a
\* ToolError.
StepOk(warnings, secrets_found) ==
    [ok |-> TRUE, err |-> "", warnings |-> warnings,
     secrets_found |-> secrets_found]
StepErr(kind) ==
    [ok |-> FALSE, err |-> kind, warnings |-> 0, secrets_found |-> FALSE]

\* What execute_step can return for a step.  policy_local decides from the
\* input built from the earlier outputs; the OPA service decides on its
\* own.
StepResults(step) ==
    CASE step.tool = "policy_local" ->
            {IF LocalPolicyInvoke(build_policy_input(files)).tag = "Ok"
             THEN StepOk(0, FALSE) ELSE StepErr("Policy") :
                files \in ChangedFiles}
      [] step.tool = "policy" ->
            {StepOk(0, FALSE), StepErr("Policy"), StepErr("Upstream")}
      [] step.tool = "clippy" ->
            {StepOk(w, FALSE) : w \in 0..MaxWarnings} \cup {StepErr("Exec")}
      [] step.tool = "secrets_scan" ->
            {StepOk(0, b) : b \in BOOLEAN} \cup {StepErr("Io")}
      [] step.tool = "build" -> {StepOk(0, FALSE), StepErr("Build")}
      [] step.tool = "test" -> {StepOk(0, FALSE), StepErr("TestFailed")}
      [] OTHER -> {StepOk(0, FALSE), StepErr("Exec")}

\* The match on execute_plan's result in run_task: the call then awaits the
\* removal of the workspace.
PlanReturned(result) ==
    /\ task' = IF result.tag = "Ok"
               THEN [task EXCEPT !.status = "PrCreated"]
               ELSE [task EXCEPT !.status = "Failed",
                                 !.error = Some(result.label)]
    /\ run' = [run EXCEPT !.pc = "cleanup"]

\* The for loop of execute_plan moves on from the step at index i (counted
\* from 0): to the step after it, or out of the loop and to Ok(()).
NextStep ==
    IF run.i + 1 < Len(generate_heuristic_plan)
    THEN /\ run' = [run EXCEPT !.pc = "step", !.i = run.i + 1]
         /\ UNCHANGED task
    ELSE PlanReturned(Ok(<<>>))

\* run_task up to the await in create_workspace.
RunTask ==
    /\ run.pc = "idle"
    /\ task' = [task EXCEPT !.status = "Planning"]
    /\ run' = [run EXCEPT !.pc = "workspace"]
    /\ UNCHANGED <<autodevCfg, now, ctxVars, brVars, caVars, clVars, faVars,
                   apiVars, policyCall>>

\* create_dir_all returns: on Err run_task returns the error, on Ok it
\* invokes git_clone.
WorkspaceReply(ok) ==
    /\ run.pc = "workspace"
    /\ run' = IF ok THEN [run EXCEPT !.pc = "clone", !.workspace = TRUE]
              ELSE [run EXCEPT !.pc = "returned",
                       !.ret = Err("Error", "Failed to create workspace base")]
    /\ UNCHANGED <<autodevCfg, task, now, ctxVars, brVars, caVars, clVars,
                   faVars, apiVars, policyCall>>

\* git_clone returns: on Err run_task returns the error, on Ok it plans and
\* starts execute_plan with the first step.
CloneReply(ok) ==
    /\ run.pc = "clone"
    /\ IF ok
       THEN /\ task' = [task EXCEPT !.status = "Executing"]
            /\ run' = [run EXCEPT !.pc = "step", !.i = 0]
       ELSE /\ run' = [run EXCEPT !.pc = "returned",
                          !.ret = Err("Error", "Failed to clone repository")]
            /\ UNCHANGED task
    /\ UNCHANGED <<autodevCfg, now, ctxVars, brVars, caVars, clVars, faVars,
                   apiVars, policyCall>>

\* execute_step for the step at index i returns Ok: the output is kept under
\* the step's name and the loop moves on.
StepSucceeds ==
    /\ run.pc = "step"
    /\ \E r \in StepResults(generate_heuristic_plan[run.i + 1]) :
       LET step == generate_heuristic_plan[run.i + 1]
           done == [run EXCEPT
                       !.invoked = Append(@, [i |-> run.i, ok |-> TRUE,
                                              err |-> ""]),
                       !.outputs = @ \cup {step.name},
                       !.clippy_warnings =
                           IF step.name = "Run clippy" THEN r.warnings ELSE @,
                       !.secrets_found =
                           IF step.name = "Scan for secrets"
                           THEN r.secrets_found ELSE @]
       IN  /\ r.ok
           /\ IF run.i + 1 < Len(generate_heuristic_plan)
              THEN /\ run' = [done EXCEPT !.i = run.i + 1]
                   /\ UNCHANGED task
              ELSE /\ run' = [done EXCEPT !.pc = "cleanup"]
                   /\ task' = [task EXCEPT !.status = "PrCreated"]
    /\ UNCHANGED <<autodevCfg, now, ctxVars, brVars, caVars, clVars, faVars,
                   apiVars, policyCall>>

\* execute_step for the step at index i returns Err: when
\* i < max_step_retries the call sleeps and then continues the loop,
\* otherwise execute_plan returns the error.
StepFails ==
    /\ run.pc = "step"
    /\ \E r \in StepResults(generate_heuristic_plan[run.i + 1]) :
       LET done == [run EXCEPT
                       !.invoked = Append(@, [i |-> run.i, ok |-> FALSE,
                                              err |-> r.err])]
       IN  /\ ~r.ok
           /\ IF run.i < autodevCfg.max_step_retries
              THEN /\ run' = [done EXCEPT !.pc = "sleep"]
                   /\ UNCHANGED task
              ELSE /\ run' = [done EXCEPT !.pc = "cleanup"]
                   /\ task' = [task EXCEPT !.status = "Failed",
                                           !.error = Some(r.err)]
    /\ UNCHANGED <<autodevCfg, now, ctxVars, brVars, caVars, clVars, faVars,
                   apiVars, policyCall>>

\* The 2 s sleep ends; continue takes the loop to its next iteration.
StepSleepEnds ==
    /\ run.pc = "sleep"
    /\ NextStep
    /\ UNCHANGED <<autodevCfg, now, ctxVars, brVars, caVars, clVars, faVars,
                   apiVars, policyCall>>

\* remove_dir_all returns: on Ok the workspace is gone, on Err a warning is
\* logged; either way run_task returns Ok(task).
CleanupReply(ok) ==
    /\ run.pc = "cleanup"
    /\ run' = [run EXCEPT !.pc = "returned", !.ret = Ok(<<>>),
                          !.workspace = IF ok THEN FALSE ELSE @]
    /\ UNCHANGED <<autodevCfg, task, now, ctxVars, brVars, caVars, clVars,
                   faVars, apiVars, policyCall>>

InitAutodev ==
    /\ autodevCfg \in AutodevConfigs
    /\ task \in [status : {"Pending"}, error : {None}, risk_tier : RiskTiers]
    /\ run = IdleRun
    /\ ApiParked
    /\ PolicyParked
    /\ ClockIdle
    /\ CtxParked
    /\ BreakerParked
    /\ CacheParked
    /\ ClientParked
    /\ FactsParked

NextAutodev ==
    \/ RunTask
    \/ \E ok \in BOOLEAN : WorkspaceReply(ok)
    \/ \E ok \in BOOLEAN : CloneReply(ok)
    \/ StepSucceeds
    \/ StepFails
    \/ StepSleepEnds
    \/ \E ok \in BOOLEAN : CleanupReply(ok)

SpecAutodev == InitAutodev /\ [][NextAutodev]_vars

\* execute_plan has returned to run_task.
PlanOver == run.pc \in {"cleanup", "returned"} /\ run.invoked # <<>>

\* C20: a failed step ends the plan: a step is invoked only if every step
\* invoked before it succeeded, and once the plan is over with a failed
\* step the task is Failed and carries the error.
C20_FailureEndsPlan ==
    /\ \A k \in 1..Len(run.invoked) :
          \A j \in 1..(k - 1) : run.invoked[j].ok
    /\ (PlanOver /\ \E k \in 1..Len(run.invoked) : ~run.invoked[k].ok) =>
          /\ task.status = "Failed"
          /\ task.error # None

\* What execute_plan does ensure: the failure of a step whose index is at
\* least max_step_retries ends the plan with the task Failed.
C20_LateFailureEndsPlan ==
    \A k \in 1..Len(run.invoked) :
        (~run.invoked[k].ok /\ run.invoked[k].i >= autodevCfg.max_step_retries) =>
            /\ k = Len(run.invoked)
            /\ task.status = "Failed"
            /\ task.error # None

\* The number of invocations of the step at index i among the first k
\* invocations of execute_step.
Attempts(i, k) == Cardinality({j \in 1..k : run.invoked[j].i = i})

\* C21: a step is attempted at most max_step_retries + 1 times, and a
\* failed attempt that leaves attempts remaining is followed, after the
\* sleep, by another attempt of the same step.
C21_RetrySameStep ==
    \A k \in 1..Len(run.invoked) :
        LET i == run.invoked[k].i
        IN  /\ Attempts(i, k) <= autodevCfg.max_step_retries + 1
            /\ (~run.invoked[k].ok
                  /\ Attempts(i, k) < autodevCfg.max_step_retries + 1) =>
                  IF k < Len(run.invoked)
                  THEN run.invoked[k + 1].i = i
                  ELSE \/ run.pc = "sleep"
                       \/ run.pc = "step" /\ run.i = i

\* What execute_plan does ensure: no step is attempted twice.
C21_OneAttemptPerStep ==
    \A k \in 1..Len(run.invoked) : Attempts(run.invoked[k].i, k) = 1


\* The tool of the k-th invocation of execute_step.
ToolInvoked(k) == generate_heuristic_plan[run.invoked[k].i + 1].tool

\* C22: whatever max_step_retries is, git_pr is invoked only after the
\* policy step returned Ok (allow), and a denial by the policy step is the
\* last invocation of the plan and leaves the task Failed.
C22_PolicyGatesPr ==
    \A k \in 1..Len(run.invoked) :
        /\ ToolInvoked(k) = "git_pr" =>
              \E j \in 1..(k - 1) :
                  /\ ToolInvoked(j) \in {"policy", "policy_local"}
                  /\ run.invoked[j].ok
        /\ (ToolInvoked(k) \in {"policy", "policy_local"}
              /\ run.invoked[k].err = "Policy") =>
              /\ k = Len(run.invoked)
              /\ task.status = "Failed"

\* What execute_plan does ensure: the gate holds when max_step_retries is
\* at most the index of the policy step in the plan.
C22_GateWithFewRetries ==
    (\A k \in 1..Len(generate_heuristic_plan) :
        generate_heuristic_plan[k].tool \in {"policy", "policy_local"} =>
            autodevCfg.max_step_retries <= k - 1)
    => C22_PolicyGatesPr


\* C26: when run_task has returned, with Ok or with Err, the workspace
\* directory of the task does not exist.
C26_WorkspaceDeleted == run.pc = "returned" => ~run.workspace

\* What run_task does ensure: the workspace is left behind only by a call
\* that returned the clone's error, or whose remove_dir_all failed.
C26_DeletedUnlessCloneFailed ==
    [][(run'.pc = "returned" /\ run'.workspace) =>
          \/ run.pc = "returned"
          \/ run.pc = "clone"
          \/ run.pc = "cleanup" /\ run.workspace]_vars

(***************************************************************************)
(*                               TASK API                                  *)
(*                       src/src/autodev/api.rs                            *)
(*                                                                         *)
(* The handlers of the task routes on the shared task map, and the         *)
(* background job that create_task spawns for each task.  In SpecApi a     *)
(* job is taken from its spawn to the return of run_task in one step, with *)
(* any of the results run_task can return; SpecCancel follows one job      *)
(* through run_task step by step.                                          *)
(***************************************************************************)

MaxTasks == 3
MaxParallelTasks == 2

\* Uuid::new_v4(): the n-th task created has id n.
TaskIds == 1..MaxTasks

TaskNew == [status |-> "Pending", error |-> None, risk_tier |-> "low"]

ApiConfigs ==
    [max_step_retries : {2}, opa_url : {None},
     max_parallel_tasks : 1..MaxParallelTasks]

\* What run_task returns: Ok(task) with the task PrCreated, or Failed with
\* its error, or Err when the workspace or the clone failed.
RunTaskResults ==
    {[tag |-> "Ok", task |-> [TaskNew EXCEPT !.status = "PrCreated"]],
     [tag |-> "Ok", task |-> [TaskNew EXCEPT !.status = "Failed",
                                             !.error = Some("Exec")]],
     [tag |-> "Err", task |-> TaskNew]}

Cancellable == {"Pending", "Planning", "Executing"}

\* create_task: the task is stored and its job is spawned.
CreateTask ==
    /\ Cardinality(DOMAIN tasks) < MaxTasks
    /\ LET id == Cardinality(DOMAIN tasks) + 1
       IN  /\ tasks' = [k \in DOMAIN tasks \cup {id} |->
                           IF k = id THEN TaskNew ELSE tasks[k]]
           /\ spawned' = spawned \cup {id}
           /\ apiLast' = [op |-> "create", id |-> id, code |-> 200]
    /\ UNCHANGED <<autodevCfg, task, run, policyCall, now, ctxVars, brVars,
                   caVars, clVars, faVars>>

CancelTaskAnyStatus(id) ==
    /\ IF id \notin DOMAIN tasks
       THEN /\ apiLast' = [op |-> "cancel", id |-> id, code |-> 404]
            /\ UNCHANGED tasks
       ELSE /\ tasks' = [tasks EXCEPT ![id].status = "Cancelled"]
            /\ apiLast' = [op |-> "cancel", id |-> id, code |-> 200]
    /\ UNCHANGED <<autodevCfg, task, run, spawned, policyCall, now, ctxVars,
                   brVars, caVars, clVars, faVars>>

\* cancel_task.
CancelTask(id) ==
    /\ IF id \notin DOMAIN tasks
       THEN /\ apiLast' = [op |-> "cancel", id |-> id, code |-> 404]
            /\ UNCHANGED tasks
       ELSE IF tasks[id].status \in Cancellable
       THEN /\ tasks' = [tasks EXCEPT ![id].status = "Cancelled"]
            /\ apiLast' = [op |-> "cancel", id |-> id, code |-> 200]
       ELSE /\ apiLast' = [op |-> "cancel", id |-> id, code |-> 400]
            /\ UNCHANGED tasks
    /\ UNCHANGED <<autodevCfg, task, run, spawned, policyCall, now, ctxVars,
                   brVars, caVars, clVars, faVars>>

\* get_task.
GetTask(id) ==
    /\ apiLast' = [op |-> "get", id |-> id,
                   code |-> IF id \in DOMAIN tasks THEN 200 ELSE 404]
    /\ UNCHANGED <<autodevCfg, task, run, tasks, spawned, policyCall, now,
                   ctxVars, brVars, caVars, clVars, faVars>>

\* A job that only logs the Err of run_task.
SpawnReturnsErrLogged(id, result) ==
    /\ id \in spawned
    /\ tasks' = IF result.tag = "Ok"
                THEN [k \in DOMAIN tasks \cup {id} |->
                         IF k = id THEN result.task ELSE tasks[k]]
                ELSE tasks
    /\ spawned' = spawned \ {id}
    /\ UNCHANGED <<autodevCfg, task, run, apiLast, policyCall, now, ctxVars,
                   brVars, caVars, clVars, faVars>>

\* The job spawned by create_task, from the return of run_task: Ok(task)
\* is stored under the id, Err marks the stored task Failed.
SpawnReturns(id, result) ==
    /\ id \in spawned
    /\ tasks' = IF result.tag = "Ok"
                THEN [k \in DOMAIN tasks \cup {id} |->
                         IF k = id THEN result.task ELSE tasks[k]]
                ELSE IF id \in DOMAIN tasks
                THEN [tasks EXCEPT ![id].status = "Failed",
                                   ![id].error = Some("Error")]
                ELSE tasks
    /\ spawned' = spawned \ {id}
    /\ UNCHANGED <<autodevCfg, task, run, apiLast, policyCall, now, ctxVars,
                   brVars, caVars, clVars, faVars>>

InitApi ==
    /\ autodevCfg \in ApiConfigs
    /\ tasks = <<>>
    /\ spawned = {}
    /\ apiLast = [op |-> "none", id |-> 0, code |-> 0]
    /\ task = <<>>
    /\ run = <<>>
    /\ PolicyParked
    /\ ClockIdle
    /\ CtxParked
    /\ BreakerParked
    /\ CacheParked
    /\ ClientParked
    /\ FactsParked

NextApi ==
    \/ CreateTask
    \/ \E id \in TaskIds : CancelTask(id)
    \/ \E id \in TaskIds : GetTask(id)
    \/ \E id \in TaskIds, result \in RunTaskResults : SpawnReturns(id, result)

SpecApi == InitApi /\ [][NextApi]_vars

\* C24: a cancel request on an unknown id answers 404 and changes no task;
\* on a task that is Pending, Planning or Executing it answers 200 and sets
\* that task, and no other, to Cancelled; on a task in any other status it
\* answers 400 and changes no task.
C24_CancelRules ==
    [][\A id \in TaskIds :
          (apiLast' # apiLast /\ apiLast'.op = "cancel" /\ apiLast'.id = id) =>
              IF id \notin DOMAIN tasks
              THEN apiLast'.code = 404 /\ tasks' = tasks
              ELSE IF tasks[id].status \in Cancellable
              THEN /\ apiLast'.code = 200
                   /\ tasks' = [tasks EXCEPT ![id].status = "Cancelled"]
              ELSE apiLast'.code = 400 /\ tasks' = tasks]_vars

\* A cancel request was refused with 400 for a task that its job had left
\* PrCreated or Failed, after another task had been cancelled.
C24_Witness ==
    /\ apiLast.op = "cancel"
    /\ apiLast.code = 400
    /\ apiLast.id \in DOMAIN tasks
    /\ tasks[apiLast.id].status \in {"PrCreated", "Failed"}
    /\ \E id \in DOMAIN tasks : tasks[id].status = "Cancelled"

\* C27: the number of tasks whose job is running never exceeds
\* max_parallel_tasks.
C27_ParallelTasksBounded ==
    Cardinality(spawned) <= autodevCfg.max_parallel_tasks


\* One task, from the moment create_task has stored it and spawned its
\* job: run_task step by step, cancel requests at any moment.
CancelConfigs ==
    [max_step_retries : {0, 2}, opa_url : {None},
     max_parallel_tasks : {DefaultMaxParallel}]

\* run_task has returned to the spawned job, which updates the task map.
JobReturns ==
    /\ run.pc = "returned"
    /\ SpawnReturns(1, [tag |-> IF run.ret.tag = "Ok" THEN "Ok" ELSE "Err",
                        task |-> task])

InitCancel ==
    /\ autodevCfg \in CancelConfigs
    /\ tasks = [id \in {1} |-> TaskNew]
    /\ spawned = {1}
    /\ apiLast = [op |-> "create", id |-> 1, code |-> 200]
    /\ task = TaskNew
    /\ run = IdleRun
    /\ PolicyParked
    /\ ClockIdle
    /\ CtxParked
    /\ BreakerParked
    /\ CacheParked
    /\ ClientParked
    /\ FactsParked

NextCancel ==
    \/ NextAutodev
    \/ CancelTask(1)
    \/ JobReturns

SpecCancel == InitCancel /\ [][NextCancel]_vars

\* C25: once the task is Cancelled in the task map, the pipeline starts no
\* further step of the plan.
C25_NoStepAfterCancel ==
    [][(tasks[1].status = "Cancelled" /\ run'.pc = "step") =>
          (run.pc = "step" /\ run'.i = run.i)]_vars

\* What the pipeline does: a cancel request changes nothing that run_task
\* reads, so after it every step of the plan can still be invoked.
C25_CancelLeavesRunAlone ==
    [][apiLast' # apiLast => (run' = run /\ task' = task)]_vars

(***************************************************************************)
(*                 OCR CLIENT: THE BREAKER AND THE RETRIES                 *)
(***************************************************************************)

\* The "decode" circuit is Open and its reset_timeout has not elapsed:
\* is_open("decode") would return true.
DecodeRejecting ==
    /\ "decode" \in DOMAIN breakers
    /\ breakers["decode"].state = "Open"
    /\ breakers["decode"].opened_at # NoInstant =>
          now - breakers["decode"].opened_at[1] < breakerCfg.reset_timeout

\* Caller i starts an upstream decode call in this step.
StartsUpstream(i) == reqs[i].pc # "await" /\ reqs'[i].pc = "await"

\* C32: no upstream decode call is started, by a first attempt or by a
\* retry, while the "decode" circuit is Open and its reset_timeout has not
\* elapsed.
C32_NoCallWhileOpen ==
    [][\A i \in DOMAIN reqs : StartsUpstream(i) => ~DecodeRejecting]_vars

\* What decode_regions does ensure: a call that consults the breaker while
\* the circuit rejects returns CircuitOpen without an upstream call.
C32_CheckRejects ==
    [][\A i \in DOMAIN reqs :
          (reqs[i].pc = "check" /\ reqs'[i].pc # "check" /\ DecodeRejecting) =>
              /\ reqs'[i].pc = "done"
              /\ reqs'[i].result.tag = "CircuitOpen"]_vars

(***************************************************************************)
(*                    TASK API: FURTHER PROPERTIES                         *)
(***************************************************************************)

\* C33: once cancel_task has set a task to Cancelled, the status stored
\* for it in the task map never changes.
C33_CancelledIsTerminal ==
    [][\A id \in DOMAIN tasks :
          tasks[id].status = "Cancelled" =>
              tasks'[id].status = "Cancelled"]_vars

\* What the API does ensure: a Cancelled status is changed only by the
\* return of the task's own job.
C33_CancelledUntilJobReturns ==
    [][\A id \in DOMAIN tasks :
          (tasks[id].status = "Cancelled" /\ tasks'[id].status # "Cancelled") =>
              (id \in spawned /\ id \notin spawned')]_vars

(***************************************************************************)
(*                 TASK ORCHESTRATOR: FURTHER PROPERTIES                   *)
(***************************************************************************)

\* The input execute_step builds for the policy step has the risk tier of
\* the task.
PolicyInputCarriesTier ==
    \A files \in ChangedFiles :
        build_policy_input(files).risk_tier = task.risk_tier

\* C34: the PolicyInput handed to the policy step carries the task's risk
\* tier, so under the local policy engine a task of risk tier High is
\* denied at the policy step and git_pr is never invoked for it.
C34_HighRiskDenied ==
    /\ (\E k \in 1..Len(run.invoked) : ToolInvoked(k) = "policy_local") =>
          PolicyInputCarriesTier
    /\ (task.risk_tier = "high" /\ autodevCfg.opa_url = None) =>
          \A k \in 1..Len(run.invoked) :
              /\ ToolInvoked(k) = "policy_local" => ~run.invoked[k].ok
              /\ ToolInvoked(k) # "git_pr"

\* What execute_step does ensure: the policy step's input says "low" for
\* every task.
C34_PolicyInputAlwaysLow ==
    \A files \in ChangedFiles : build_policy_input(files).risk_tier = "low"

\* A task of risk tier High passes the local policy step although failed
\* steps end the plan (max_step_retries = 0), and git_pr is invoked.
C34_HighRiskReachesPr ==
    /\ task.risk_tier = "high"
    /\ autodevCfg.opa_url = None
    /\ autodevCfg.max_step_retries = 0
    /\ \E k \in 1..Len(run.invoked) : ToolInvoked(k) = "git_pr"

\* Every step of the plan was invoked once and succeeded, git_pr, the last
\* step, included.
PrSucceeded ==
    /\ Len(run.invoked) = Len(generate_heuristic_plan)
    /\ \A k \in 1..Len(run.invoked) :
          /\ run.invoked[k].i = k - 1
          /\ run.invoked[k].ok
    /\ ToolInvoked(Len(run.invoked)) = "git_pr"

\* C35: whatever max_step_retries is, a task is PrCreated only if git_pr
\* was invoked and succeeded and every step before it succeeded; a task
\* whose plan ended otherwise is Failed with a recorded error.
C35_PrCreatedOnlyAfterPr ==
    /\ task.status = "PrCreated" => (PlanOver /\ PrSucceeded)
    /\ (PlanOver /\ ~PrSucceeded) =>
          (task.status = "Failed" /\ task.error # None)

\* What run_task does ensure: the same when no failed step is skipped
\* (max_step_retries = 0).
C35_WithoutRetries ==
    autodevCfg.max_step_retries = 0 => C35_PrCreatedOnlyAfterPr

\* git_pr itself fails and the task ends PrCreated.
C35_FailedPrEndsPrCreated ==
    /\ task.status = "PrCreated"
    /\ run.invoked # <<>>
    /\ ToolInvoked(Len(run.invoked)) = "git_pr"
    /\ ~run.invoked[Len(run.invoked)].ok

(***************************************************************************)
(*                    TASK API: EVERY TASK TERMINATES                      *)
(*                                                                         *)
(* The tokio runtime runs the spawned job whenever it can proceed, and     *)
(* every await of run_task (create_dir_all, the tool invocations, the      *)
(* sleep, remove_dir_all) returns: the steps of the job are weakly fair.   *)
(* Cancel requests come from outside and may never come.                   *)
(***************************************************************************)

SpecCancelFair ==
    /\ InitCancel
    /\ [][NextCancel]_vars
    /\ WF_vars(NextAutodev)
    /\ WF_vars(JobReturns)

TerminalStatuses == {"PrCreated", "Failed", "Cancelled"}

\* C36: the task created through create_task eventually has a terminal
\* status (PrCreated, Failed or Cancelled) in the task map and keeps one,
\* also when the workspace creation or the clone fails.
C36_TaskTerminates ==
    <>[](\A id \in DOMAIN tasks : tasks[id].status \in TerminalStatuses)

\* run_task returned Err before any step of the plan, and the job has
\* marked the task of the map Failed.
C36_Witness ==
    /\ run.pc = "returned"
    /\ run.ret.tag # "Ok"
    /\ run.invoked = <<>>
    /\ 1 \notin spawned
    /\ tasks[1].status = "Failed"
    /\ tasks[1].error # None

(***************************************************************************)
(*                    FACT STORE: FURTHER PROPERTIES                       *)
(***************************************************************************)

\* The fact of the caller's insert_fact call has a confidence below the
\* configured threshold.
BelowThreshold(c) ==
    /\ inserts[c].fact # None
    /\ ~meets_threshold(inserts[c].fact[1], factCfg.confidence_threshold)

\* C37: an insert_fact call whose confidence is below confidence_threshold
\* never requests an upsert and writes no point, so every point written or
\* acknowledged has a confidence of at least the threshold; when such a
\* call returns, it returns an error unless it reports a duplicate.
C37_BelowThresholdNotWritten ==
    /\ \A p \in points \cup acked :
          p.payload.confidence >= factCfg.confidence_threshold
    /\ \A c \in DOMAIN inserts :
          BelowThreshold(c) =>
              /\ inserts[c].pc # "upsert"
              /\ ~inserts[c].wrote
              /\ inserts[c].pc = "done" =>
                    IF inserts[c].result.tag = "Ok"
                    THEN inserts[c].result.results.duplicate
                    ELSE inserts[c].result.tag = "Internal"

\* A call below the threshold that found no duplicate has returned the
\* threshold error while the collection holds a point written by another
\* call.
C37_Witness ==
    /\ points # {}
    /\ \E c \in DOMAIN inserts :
          /\ BelowThreshold(c)
          /\ inserts[c].pc = "done"
          /\ inserts[c].result.label = "confidence below threshold"
          /\ WithHash(inserts[c].fact[1].hash) = {}

\* The insert_fact call of the caller has returned a duplicate response.
ReportedDuplicate(c) ==
    /\ inserts[c].pc = "done"
    /\ inserts[c].result.tag = "Ok"
    /\ inserts[c].result.results.duplicate

\* C38: the bytes hashed separate every field, doc_id, page and region_id
\* included: facts that differ in subject, predicate, object or source
\* anchor have different hashes, and an insert is reported a duplicate only
\* of a fact with the same source anchor.
C38_AnchorsSeparated ==
    /\ \A f, g \in FactsBuilt : f.hash = g.hash => SameContent(f, g)
    /\ \A c \in DOMAIN inserts :
          ReportedDuplicate(c) =>
              \A f \in FactsBuilt :
                  f.id = inserts[c].result.results.fact_id =>
                      f.source_anchor = inserts[c].fact[1].source_anchor

\* What insert_fact does ensure: a duplicate is reported only of a fact
\* with the same hash.
C38_DuplicateOfSameHash ==
    \A c \in DOMAIN inserts :
        ReportedDuplicate(c) =>
            \A f \in FactsBuilt :
                f.id = inserts[c].result.results.fact_id =>
                    f.hash = inserts[c].fact[1].hash

\* An insert anchored at document "d1" is reported a duplicate of the fact
\* anchored at page 1 of document "d".
C38_DuplicateOfOtherAnchor ==
    \E c \in DOMAIN inserts :
        /\ ReportedDuplicate(c)
        /\ \E f \in FactsBuilt :
              /\ f.id = inserts[c].result.results.fact_id
              /\ f.source_anchor # inserts[c].fact[1].source_anchor

(***************************************************************************)
(*                  CIRCUIT BREAKER: ONE ENTRY PER LABEL                   *)
(***************************************************************************)

\* The entry of a label is the same before and after the step, present or
\* absent.
EntryUntouched(op) ==
    /\ (op \in DOMAIN breakers') = (op \in DOMAIN breakers)
    /\ EntryOrInsert(breakers', op) = EntryOrInsert(breakers, op)

\* C39: an is_open, mark_success, mark_failure or reset call on one label
\* leaves the state, failure_count and opened_at of every other label as
\* they were, and after reset(op) the label op is Closed with no failure
\* counted, whatever its state was.
C39_PerLabel ==
    [][/\ \A other \in Labels :
             (brLast'.op = "none" \/ other # brLast'.label) =>
                 EntryUntouched(other)
       /\ brLast'.op = "reset" =>
             /\ EntryOrInsert(breakers', brLast'.label).state = "Closed"
             /\ EntryOrInsert(breakers', brLast'.label).failure_count = 0
             /\ EntryOrInsert(breakers', brLast'.label).opened_at = NoInstant]_vars

\* reset was called on an Open label while another label was Open, and
\* that other label is Open still.
C39_Witness ==
    /\ brLast.op = "reset"
    /\ brLast.pre.state = "Open"
    /\ BrPost = BreakerEntryNew
    /\ \E other \in DOMAIN breakers :
          /\ other # brLast.label
          /\ breakers[other].state = "Open"
          /\ breakers[other].failure_count >= breakerCfg.failure_threshold

(***************************************************************************)
(*                           LLM SUMMARIZER                                *)
(*                     src/src/context/summarizer.rs                       *)
(*                                                                         *)
(* One summarize call of the LLMSummarizer.  The call awaits the sleep     *)
(* before a retry and the reply to each request; sent holds the outcome    *)
(* of every request made, in order, and slept every sleep made.            *)
(***************************************************************************)

\* SummarizerConfig.max_retries values explored (usize, default 3).
MaxRetries == 3

\* What a request can come to: a summary, a network error of send(), a
\* status that is not a success, a body that does not parse, a response
\* with no choice.
RequestOutcomes == {"Ok", "Network", "Http", "Parse", "NoChoices"}

\* The SummarizerError stored in last_error for a failed request.
RequestError(outcome) ==
    IF outcome = "Network" THEN Err("NetworkError", outcome)
    ELSE Err("ApiError", outcome)

LlmIdle(max_retries) ==
    [pc |-> "idle", max_retries |-> max_retries, attempt |-> 0,
     sent |-> <<>>, slept |-> <<>>, last_error |-> None, ret |-> NoResult]

\* A loop that makes the initial request and then max_retries retries.
LoopHeadInclusive(call, attempt) ==
    IF attempt <= call.max_retries
    THEN [call EXCEPT !.attempt = attempt,
                      !.pc = IF attempt > 0 THEN "sleep" ELSE "send"]
    ELSE [call EXCEPT !.pc = "done",
                      !.ret = IF call.last_error # None
                              THEN call.last_error[1]
                              ELSE Err("Unknown", "")]

\* The head of `for attempt in 0..self.config.max_retries`, and what
\* follows the loop: Err(last_error.unwrap_or(SummarizerError::Unknown)).
\* The sleep is made when attempt > 0.
LoopHead(call, attempt) ==
    IF attempt < call.max_retries
    THEN [call EXCEPT !.attempt = attempt,
                      !.pc = IF attempt > 0 THEN "sleep" ELSE "send"]
    ELSE [call EXCEPT !.pc = "done",
                      !.ret = IF call.last_error # None
                              THEN call.last_error[1]
                              ELSE Err("Unknown", "")]

\* summarize(texts, max_tokens) up to its first await.
Summarize(empty) ==
    /\ llm.pc = "idle"
    /\ llm' = IF empty
              THEN [llm EXCEPT !.pc = "done", !.ret = Ok("")]
              ELSE LoopHead(llm, 0)
    /\ UNCHANGED <<budget, ctxIn, ctxPc, ctxSelected, ctxCall, ctxOut, now,
                   brVars, caVars, clVars, faVars, adVars>>

\* tokio::time::sleep(Duration::from_millis(100 * (1 << attempt))) ends.
\* The shift and the product are u64: they fit for attempt below 58.
LlmSleepEnds ==
    /\ llm.pc = "sleep"
    /\ llm' = [llm EXCEPT !.pc = "send",
                          !.slept = Append(@, Duration(100, llm.attempt))]
    /\ UNCHANGED <<budget, ctxIn, ctxPc, ctxSelected, ctxCall, ctxOut, now,
                   brVars, caVars, clVars, faVars, adVars>>

\* The request of this attempt comes to its outcome: a summary is
\* returned, a failure is stored in last_error and the loop goes on.
LlmReply(outcome) ==
    /\ llm.pc = "send"
    /\ llm' = IF outcome = "Ok"
              THEN [llm EXCEPT !.pc = "done", !.ret = Ok("summary"),
                               !.sent = Append(@, outcome)]
              ELSE LoopHead([llm EXCEPT
                                !.sent = Append(@, outcome),
                                !.last_error = Some(RequestError(outcome))],
                            llm.attempt + 1)
    /\ UNCHANGED <<budget, ctxIn, ctxPc, ctxSelected, ctxCall, ctxOut, now,
                   brVars, caVars, clVars, faVars, adVars>>

InitLlm ==
    /\ llm \in {LlmIdle(m) : m \in 0..MaxRetries}
    /\ budget = <<>>
    /\ ctxIn = <<>>
    /\ ctxPc = "idle"
    /\ ctxSelected = <<>>
    /\ ctxCall = <<>>
    /\ ctxOut = NotReturned
    /\ ClockIdle
    /\ BreakerParked
    /\ CacheParked
    /\ ClientParked
    /\ FactsParked
    /\ AutodevParked

NextLlm ==
    \/ \E empty \in BOOLEAN : Summarize(empty)
    \/ LlmSleepEnds
    \/ \E outcome \in RequestOutcomes : LlmReply(outcome)

SpecLlm == InitLlm /\ [][NextLlm]_vars

\* The call has returned and its texts were not empty.
LlmReturned == llm.pc = "done" /\ llm.ret # Ok("")

\* Every request but the last failed, and before the request number k + 1
\* (the retry after k failures) the call slept 100 ms * 2^k.
FailuresThenSleeps ==
    /\ \A k \in 1..(Len(llm.sent) - 1) : llm.sent[k] # "Ok"
    /\ Len(llm.slept) = Max(Len(llm.sent) - 1, 0)
    /\ \A k \in 1..Len(llm.slept) : llm.slept[k] = Duration(100, k)

\* C40: on non-empty texts, summarize makes an initial request and, while
\* the requests fail, up to max_retries retries, sleeping 100 ms * 2^k
\* before the k-th retry; it returns the summary of the first request that
\* succeeds, and otherwise, after max_retries + 1 failed requests, the
\* network or API error of the last one; for every max_retries >= 0.
C40_InitialAndRetries ==
    LlmReturned =>
        /\ FailuresThenSleeps
        /\ Len(llm.sent) >= 1
        /\ Len(llm.sent) <= llm.max_retries + 1
        /\ IF llm.ret.tag = "Ok"
           THEN llm.sent[Len(llm.sent)] = "Ok"
           ELSE /\ Len(llm.sent) = llm.max_retries + 1
                /\ llm.ret = RequestError(llm.sent[Len(llm.sent)])

\* What summarize does ensure: max_retries is the number of requests, the
\* first one included; with max_retries = 0 no request is made and the
\* error is Unknown.
C40_MaxRetriesRequests ==
    LlmReturned =>
        /\ FailuresThenSleeps
        /\ Len(llm.sent) <= llm.max_retries
        /\ IF llm.ret.tag = "Ok"
           THEN llm.sent[Len(llm.sent)] = "Ok"
           ELSE /\ Len(llm.sent) = llm.max_retries
                /\ llm.ret = IF llm.sent = <<>> THEN Err("Unknown", "")
                             ELSE RequestError(llm.sent[Len(llm.sent)])

\* With max_retries = 1 the one request failed and the call returned its
\* error without a retry.
C40_NoRetryWithOne ==
    /\ LlmReturned
    /\ llm.max_retries = 1
    /\ llm.sent = <<"Network">>
    /\ llm.ret = Err("NetworkError", "Network")

====
